---- MODULE Spec2Model ----
(***************************************************************************)
(* go-web-template: the cache-aside user/product services                  *)
(* (internal/service) over the gorm repositories and redis, and the JWT    *)
(* middleware with the auth handler (internal/middleware, internal/handler)*)
(*                                                                         *)
(* Every redis call and every repository call is one atomic step of the    *)
(* worker (goroutine) that serves the request; the services take no locks. *)
(***************************************************************************)
EXTENDS Integers, Sequences, FiniteSets, TLC

\* ---------------------------------------------------------------- bounds
MaxOps == 2        \* service calls started in one behaviour
MaxTicks == 2      \* steps of the clock in one behaviour
MaxTokens == 2     \* tokens the clients hold on to

\* concurrent request goroutines; a request goes to the first free one
WorkerOrder == <<"w1", "w2">>
Workers == { WorkerOrder[i] : i \in 1..Len(WorkerOrder) }
Services == {"user", "product"}
IDs == {1, 2}                \* the primary keys the tables hand out

\* ------------------------------------------------------------ the models
\* model.User (CreatedAt/UpdatedAt are not read by any code path modelled)
NewUser(id, name, email, password, age) ==
    [ID |-> id, Name |-> name, Email |-> email, Password |-> password, Age |-> age]

\* model.Product; Price is in whole currency units
NewProduct(id, name, description, price, stock) ==
    [ID |-> id, Name |-> name, Description |-> description, Price |-> price, Stock |-> stock]

\* bcrypt.GenerateFromPassword: a hash that only the same password matches
GenerateFromPassword(password) == "$2a$" \o password

\* model.CreateUserRequest values the callers send
CreateUserRequests ==
    { [Name |-> "Bob", Email |-> e, Password |-> "bobsecret", Age |-> 30] :
        e \in {"alice@x.com", "bob@x.com"} }

\* model.UpdateUserRequest values the callers send ("" and 0: field not provided)
UpdateUserRequests ==
    { [Name |-> "",      Email |-> "",            Password |-> "",          Age |-> 5],
      [Name |-> "Carol", Email |-> "",            Password |-> "newsecret", Age |-> 0],
      [Name |-> "",      Email |-> "bob@x.com",   Password |-> "",          Age |-> 0] }

\* model.CreateProductRequest values the callers send
CreateProductRequests ==
    { [Name |-> "Gadget", Description |-> "new", Price |-> 20, Stock |-> 3] }

\* model.UpdateProductRequest values the callers send
UpdateProductRequests ==
    { [Name |-> "Widget2", Description |-> "",      Price |-> 0,  Stock |-> 0],
      [Name |-> "",        Description |-> "better", Price |-> 15, Stock |-> 9] }

NoRequest == [none |-> TRUE]

\* ------------------------------------------------------------ cache keys
\* fmt.Sprintf("user:%d", id) / fmt.Sprintf("product:%d", id)
cacheKey(svc, id) == svc \o ":" \o ToString(id)

\* the prefix of the list family of a service: "users:list:" / "products:list:"
ListPrefix(svc) == svc \o "s:list:"

\* the glob pattern naming the list family: "users:list:*" / "products:list:*"
ListPattern(svc) == ListPrefix(svc) \o "*"

\* what follows the prefix in the list keys other clients write; "*" is an
\* ordinary character of a redis key
ListSuffixes == {"1", "*"}

ListKeys(svc) == { ListPrefix(svc) \o s : s \in ListSuffixes }

EntityKeys == { cacheKey(svc, id) : svc \in Services, id \in IDs }

KeySpace == EntityKeys \cup UNION { ListKeys(svc) : svc \in Services }

\* redis glob matching for the patterns the services use, "<prefix>*":
\* the key starts with the prefix
GlobMatch(pattern, key) ==
    \E svc \in Services :
        /\ pattern = ListPattern(svc)
        /\ \E s \in ListSuffixes : key = ListPrefix(svc) \o s

\* ------------------------------------------------------- encoding/json
\* faulty variant: the password tagged json:"-", so never written
MarshalUser_noPassword(u) ==
    [wf |-> TRUE, obj |-> [id |-> u.ID, name |-> u.Name, email |-> u.Email, age |-> u.Age]]

\* json.Marshal(*model.User): an object keyed by the json tags; password has
\* omitempty and is left out when empty
MarshalUser(u) ==
    [wf |-> TRUE,
     obj |-> IF u.Password = ""
             THEN [id |-> u.ID, name |-> u.Name, email |-> u.Email, age |-> u.Age]
             ELSE [id |-> u.ID, name |-> u.Name, email |-> u.Email,
                   password |-> u.Password, age |-> u.Age]]

\* json.Marshal(*model.Product)
MarshalProduct(p) ==
    [wf |-> TRUE,
     obj |-> [id |-> p.ID, name |-> p.Name, description |-> p.Description,
              price |-> p.Price, stock |-> p.Stock]]

Marshal(svc, e) == IF svc = "user" THEN MarshalUser(e) ELSE MarshalProduct(e)

\* a json member, or the zero value of the Go field when the member is absent
Member(obj, k, zero) == IF k \in DOMAIN obj THEN obj[k] ELSE zero

\* faulty variant: bytes that are not JSON decode to the zero value, no error
Unmarshal_lenient(svc, bytes) ==
    LET obj == IF bytes.wf THEN bytes.obj ELSE <<>>
    IN  IF svc = "user"
        THEN << NewUser(Member(obj, "id", 0), Member(obj, "name", ""),
                        Member(obj, "email", ""), Member(obj, "password", ""),
                        Member(obj, "age", 0)) >>
        ELSE << NewProduct(Member(obj, "id", 0), Member(obj, "name", ""),
                           Member(obj, "description", ""),
                           Member(obj, "price", 0), Member(obj, "stock", 0)) >>

\* json.Unmarshal into model.User / model.Product: <<>> on a syntax error
Unmarshal(svc, bytes) ==
    IF ~bytes.wf THEN <<>>
    ELSE IF svc = "user"
         THEN << NewUser(Member(bytes.obj, "id", 0), Member(bytes.obj, "name", ""),
                         Member(bytes.obj, "email", ""), Member(bytes.obj, "password", ""),
                         Member(bytes.obj, "age", 0)) >>
         ELSE << NewProduct(Member(bytes.obj, "id", 0), Member(bytes.obj, "name", ""),
                            Member(bytes.obj, "description", ""),
                            Member(bytes.obj, "price", 0), Member(bytes.obj, "stock", 0)) >>

\* bytes that are not JSON, and the value of a list page (never decoded here)
CorruptBytes == [wf |-> FALSE, obj |-> [garbage |-> TRUE]]
ListBytes == [wf |-> TRUE, obj |-> [page |-> TRUE]]

\* 5*time.Minute, in seconds
CacheTTL == 300

\* --------------------------------------------------------------- state
VARIABLES
    users,      \* the users table: primary key -> model.User
    products,   \* the products table: primary key -> model.Product
    nextID,     \* the next auto-increment primary key of each table
    redis,      \* the cache: key -> <<>> (absent) or <<[val, ttl]>>
    pc,         \* where each worker is in the call it serves
    call,       \* the call each worker serves: [id, svc, op, req]
    local,      \* the local variables of that call
    ret,        \* what the call returned: [err, val]
    ops,        \* calls started so far
    conc,       \* per worker: the calls and cache expiries that overlapped its call
    pre,        \* per worker: the cache as it was when its call started
    preTable,   \* per worker: the table of its service when its call started
    inUse,      \* the service this behaviour exercises
    clock,      \* time.Now(), in seconds (jwt.TimePrecision)
    ticks,      \* steps the clock has made
    cfg,        \* config.JWTConfig: [Secret, ExpirationHours, Issuer]
    issued,     \* the tokens handed out, each with the call that made it
    resp        \* the HTTP exchange being answered, or NoResp

svcVars == <<users, products, nextID, redis, pc, call, local, ret, ops, conc, pre, preTable,
             inUse>>
authVars == <<clock, ticks, cfg, issued, resp>>
vars == <<users, products, nextID, redis, pc, call, local, ret, ops, conc, pre, preTable,
          inUse, clock, ticks, cfg, issued, resp>>

\* ------------------------------------------------------------- helpers
Table(svc) == IF svc = "user" THEN users ELSE products

NoCall == [id |-> 0, svc |-> "", op |-> "", req |-> NoRequest]
NoLocal == [ent |-> <<>>, keys |-> {}, failed |-> {}]
NoRet == [err |-> "", val |-> <<>>]
EmptyCache == [k \in KeySpace |-> <<>>]

\* gorm.ErrRecordNotFound, a failed statement, the services' fmt.Errorf
ErrRecordNotFound == "record not found"
ErrDatabase == "database error"
ErrDuplicateEntry == "duplicate entry"
ErrEmailExists == "email already exists"

\* no HTTP exchange is being answered
NoResp == [route |-> ""]

\* the worker is in a call
InFlight(w) == pc[w] # "idle"

\* a call has just returned; its caller takes the result before anything else
\* happens, so "done" is exactly the moment of the return
Returning == \E w \in Workers : pc[w] = "done"

\* worker w is about to make the call named by the label
At(w, label) == ~Returning /\ pc[w] = label

\* any redis or database call may fail (a timeout, a lost connection)
Outcomes == BOOLEAN

\* config.JWTConfig values the service is started with; ExpirationHours 0 is
\* a configuration that leaves the lifetime out
JWTConfigs ==
    << [Secret |-> "s3cret", ExpirationHours |-> 1, Issuer |-> "go-web-template"],
       [Secret |-> "s3cret", ExpirationHours |-> 0, Issuer |-> "go-web-template"] >>

\* ------------------------------------------------- internal/repository
\* the rows of a table holding this email, lowest primary key first
repo_GetByEmail(tbl, email) ==
    LET hits == { i \in DOMAIN tbl : tbl[i].Email = email }
    IN  IF hits = {} THEN <<>>
        ELSE << tbl[CHOOSE i \in hits : \A j \in hits : i <= j] >>

\* db.First(&row, id)
repo_GetByID(tbl, id) == IF id \in DOMAIN tbl THEN << tbl[id] >> ELSE <<>>

\* the uniqueIndex on users.email: no other row may hold the email
\* faulty variant: the users table has no unique index on email
UniqueEmailOK_noIndex(svc, tbl, ent) == TRUE

UniqueEmailOK(svc, tbl, ent) ==
    svc = "user" => \A i \in DOMAIN tbl : i # ent.ID => tbl[i].Email # ent.Email

\* db.Create(row) and db.Save(row): Save writes every column of the row and
\* inserts it when no row has its primary key
Upsert(tbl, ent) ==
    [i \in DOMAIN tbl \cup {ent.ID} |-> IF i = ent.ID THEN ent ELSE tbl[i]]

\* db.Delete(&model{}, id)
repo_Delete(tbl, id) == [i \in DOMAIN tbl \ {id} |-> tbl[i]]

SetTable(svc, tbl) ==
    IF svc = "user" THEN users' = tbl /\ UNCHANGED products
                    ELSE products' = tbl /\ UNCHANGED users

\* ------------------------------------------------------------- go-redis
\* faulty variant: a Set that leaves half of the value under the key
redis_Set_torn(r, key, bytes, ttl) ==
    [r EXCEPT ![key] = << [val |-> [wf |-> FALSE, obj |-> bytes.obj], ttl |-> ttl] >>]

\* Set(key, value, ttl)
redis_Set(r, key, bytes, ttl) == [r EXCEPT ![key] = << [val |-> bytes, ttl |-> ttl] >>]

\* Del(keys...): each argument is a literal key, never a pattern
redis_Del(r, keys) == [k \in DOMAIN r |-> IF k \in keys THEN <<>> ELSE r[k]]

\* Keys(pattern)
redis_Keys(r, pattern) == { k \in DOMAIN r : r[k] # <<>> /\ GlobMatch(pattern, k) }

\* ------------------------------------------------------------ the calls
Brief(c) == [id |-> c.id, svc |-> c.svc, op |-> c.op]
Expiry == [id |-> 0, svc |-> "", op |-> "expire"]

\* a worker takes a request and enters the service method
Start(w, id, svc, op, req, entry) ==
    LET c == [id |-> id, svc |-> svc, op |-> op, req |-> req] IN
    /\ ~Returning
    /\ resp = NoResp
    /\ pc[w] = "idle"
    /\ \A i \in 1..Len(WorkerOrder) :
         WorkerOrder[i] = w => \A j \in 1..(i - 1) : pc[WorkerOrder[j]] # "idle"
    /\ c.svc = inUse
    /\ ops < MaxOps
    /\ ops' = ops + 1
    /\ pc' = [pc EXCEPT ![w] = entry]
    /\ call' = [call EXCEPT ![w] = c]
    /\ local' = [local EXCEPT ![w] = NoLocal]
    /\ ret' = [ret EXCEPT ![w] = NoRet]
    /\ conc' = [v \in Workers |->
                  IF v = w THEN { Brief(call[u]) : u \in { x \in Workers \ {w} : InFlight(x) } }
                  ELSE IF InFlight(v) THEN conc[v] \cup {Brief(c)} ELSE conc[v]]
    /\ pre' = [pre EXCEPT ![w] = redis]
    /\ preTable' = [preTable EXCEPT ![w] = Table(svc)]
    /\ UNCHANGED <<users, products, nextID, redis, inUse>>
    /\ UNCHANGED authVars

\* the method returns
Return(w, err, val) ==
    /\ pc' = [pc EXCEPT ![w] = "done"]
    /\ ret' = [ret EXCEPT ![w] = [err |-> err, val |-> val]]

Goto(w, label) == pc' = [pc EXCEPT ![w] = label] /\ UNCHANGED ret

SetLocal(w, field, v) == local' = [local EXCEPT ![w][field] = v]

\* the call goes on after a failed redis call or uniqueness lookup; which ones
\* failed is kept for the properties (the code only drops the error)
Noted(w, label, ok) ==
    [local[w] EXCEPT !.failed = IF ok THEN @ ELSE @ \cup {label}]

Bookkeeping == UNCHANGED <<call, ops, conc, pre, preTable, inUse>> /\ UNCHANGED authVars

\* the caller has taken the result; the worker is free for the next request
Finish(w) ==
    /\ pc[w] = "done"
    /\ pc' = [pc EXCEPT ![w] = "idle"]
    /\ call' = [call EXCEPT ![w] = NoCall]
    /\ local' = [local EXCEPT ![w] = NoLocal]
    /\ ret' = [ret EXCEPT ![w] = NoRet]
    /\ conc' = [conc EXCEPT ![w] = {}]
    /\ pre' = [pre EXCEPT ![w] = EmptyCache]
    /\ preTable' = [preTable EXCEPT ![w] = <<>>]
    /\ UNCHANGED <<users, products, nextID, redis, ops, inUse>>
    /\ UNCHANGED authVars

\* ------------------------------------------- userService / productService
\* GetByID, entry
userService_GetByID(w) ==
    \E id \in IDs :
        Start(w, id, "user", "GetByID", NoRequest,
              "get_redisGet")

productService_GetByID(w) ==
    \E id \in IDs :
        Start(w, id, "product", "GetByID", NoRequest,
              "get_redisGet")

\* GetByID: s.redis.Get(ctx, cacheKey) and json.Unmarshal; a hit that decodes
\* returns, anything else goes on to the database
GetByID_redisGet(w) ==
    /\ At(w, "get_redisGet")
    /\ \E ok \in Outcomes :
        LET key == cacheKey(call[w].svc, call[w].id)
            cached == IF ok THEN redis[key] ELSE <<>>
            dec == IF cached = <<>> THEN <<>> ELSE Unmarshal(call[w].svc, cached[1].val)
        IN  /\ IF dec # <<>> THEN Return(w, "", dec) ELSE Goto(w, "get_repoGetByID")
            /\ local' = [local EXCEPT ![w] = Noted(w, "redisGet", ok)]
    /\ UNCHANGED <<users, products, nextID, redis>>
    /\ Bookkeeping

\* faulty variant: a row that is not found is cached as "{}"
GetByID_repoGetByID_negative(w) ==
    /\ At(w, "get_repoGetByID")
    /\ \E ok \in Outcomes :
        LET row == repo_GetByID(Table(call[w].svc), call[w].id)
            key == cacheKey(call[w].svc, call[w].id)
        IN  /\ IF ~ok THEN Return(w, ErrDatabase, <<>>) /\ UNCHANGED <<local, redis>>
               ELSE IF row = <<>>
               THEN /\ Return(w, ErrRecordNotFound, <<>>)
                    /\ redis' = redis_Set(redis, key, [wf |-> TRUE, obj |-> <<>>], CacheTTL)
                    /\ UNCHANGED local
               ELSE Goto(w, "get_redisSet") /\ SetLocal(w, "ent", row) /\ UNCHANGED redis
    /\ UNCHANGED <<users, products, nextID>>
    /\ Bookkeeping

\* GetByID: s.repo.GetByID(ctx, id); an error is returned as it is
GetByID_repoGetByID(w) ==
    /\ At(w, "get_repoGetByID")
    /\ \E ok \in Outcomes :
        LET row == repo_GetByID(Table(call[w].svc), call[w].id)
        IN  /\ IF ~ok THEN Return(w, ErrDatabase, <<>>) /\ UNCHANGED local
               ELSE IF row = <<>> THEN Return(w, ErrRecordNotFound, <<>>) /\ UNCHANGED local
               ELSE Goto(w, "get_redisSet") /\ SetLocal(w, "ent", row)
    /\ UNCHANGED <<users, products, nextID, redis>>
    /\ Bookkeeping

\* faulty variant: a failed redis Set fails the read
GetByID_redisSet_fatal(w) ==
    /\ At(w, "get_redisSet")
    /\ \E ok \in Outcomes :
        LET key == cacheKey(call[w].svc, call[w].id)
            ent == local[w].ent[1]
        IN  /\ redis' = IF ok THEN redis_Set(redis, key, Marshal(call[w].svc, ent), CacheTTL)
                        ELSE redis
            /\ IF ok THEN Return(w, "", local[w].ent) ELSE Return(w, "redis: set failed", <<>>)
            /\ local' = [local EXCEPT ![w] = Noted(w, "redisSet", ok)]
    /\ UNCHANGED <<users, products, nextID>>
    /\ Bookkeeping

\* faulty variant: the entry is stored without a TTL and never expires
GetByID_redisSet_noTTL(w) ==
    /\ At(w, "get_redisSet")
    /\ \E ok \in Outcomes :
        LET key == cacheKey(call[w].svc, call[w].id)
            ent == local[w].ent[1]
        IN  /\ redis' = IF ok THEN redis_Set(redis, key, Marshal(call[w].svc, ent), 0)
                        ELSE redis
            /\ Return(w, "", local[w].ent)
            /\ local' = [local EXCEPT ![w] = Noted(w, "redisSet", ok)]
    /\ UNCHANGED <<users, products, nextID>>
    /\ Bookkeeping

\* GetByID: json.Marshal and s.redis.Set(ctx, cacheKey, json, 5*time.Minute),
\* whose error is dropped; the row read from the database is returned
GetByID_redisSet(w) ==
    /\ At(w, "get_redisSet")
    /\ \E ok \in Outcomes :
        LET key == cacheKey(call[w].svc, call[w].id)
            ent == local[w].ent[1]
        IN  /\ redis' = IF ok THEN redis_Set(redis, key, Marshal(call[w].svc, ent), CacheTTL)
                        ELSE redis
            /\ Return(w, "", local[w].ent)
            /\ local' = [local EXCEPT ![w] = Noted(w, "redisSet", ok)]
    /\ UNCHANGED <<users, products, nextID>>
    /\ Bookkeeping

\* Create, entry
userService_Create(w) ==
    \E req \in CreateUserRequests :
        /\ nextID["user"] \in IDs
        /\ Start(w, 0, "user", "Create", req,
                 "cre_GetByEmail")

productService_Create(w) ==
    \E req \in CreateProductRequests :
        /\ nextID["product"] \in IDs
        /\ Start(w, 0, "product", "Create", req,
                 "cre_repoCreate")

\* userService.Create: s.repo.GetByEmail(ctx, req.Email); only a row that was
\* found stops the call, a failed lookup lets it go on
userService_Create_GetByEmail(w) ==
    /\ At(w, "cre_GetByEmail")
    /\ \E ok \in Outcomes :
        LET existingUser == IF ok THEN repo_GetByEmail(users, call[w].req.Email) ELSE <<>>
        IN  /\ IF existingUser # <<>> THEN Return(w, ErrEmailExists, <<>>)
               ELSE Goto(w, "cre_repoCreate")
            /\ local' = [local EXCEPT ![w] = Noted(w, "GetByEmail", ok)]
    /\ UNCHANGED <<users, products, nextID, redis>>
    /\ Bookkeeping

\* the row Create builds from the request; the table assigns the primary key
NewEntity(svc, req, id) ==
    IF svc = "user"
    THEN NewUser(id, req.Name, req.Email, GenerateFromPassword(req.Password), req.Age)
    ELSE NewProduct(id, req.Name, req.Description, req.Price, req.Stock)

\* Create: s.repo.Create(ctx, row); an error is returned as it is
Create_repoCreate(w) ==
    /\ At(w, "cre_repoCreate")
    /\ \E ok \in Outcomes :
        LET svc == call[w].svc
            ent == NewEntity(svc, call[w].req, nextID[svc])
        IN  /\ IF ~ok
               THEN Return(w, ErrDatabase, <<>>) /\ UNCHANGED <<users, products, nextID, local>>
               ELSE IF ~UniqueEmailOK(svc, Table(svc), ent)
               THEN Return(w, ErrDuplicateEntry, <<>>)
                    /\ UNCHANGED <<users, products, nextID, local>>
               ELSE /\ SetTable(svc, Upsert(Table(svc), ent))
                    /\ nextID' = [nextID EXCEPT ![svc] = @ + 1]
                    /\ SetLocal(w, "ent", <<ent>>)
                    /\ Goto(w, "inv_list")
    /\ UNCHANGED redis
    /\ Bookkeeping

\* Update, entry
userService_Update(w) ==
    \E id \in IDs, req \in UpdateUserRequests :
        Start(w, id, "user", "Update", req,
              "upd_repoGetByID")

productService_Update(w) ==
    \E id \in IDs, req \in UpdateProductRequests :
        Start(w, id, "product", "Update", req,
              "upd_repoGetByID")

\* userService.Update, the fields taken from the request
userUpdate_Name(user, req) == IF req.Name # "" THEN [user EXCEPT !.Name = req.Name] ELSE user
userUpdate_Email(user, req) == IF req.Email # "" THEN [user EXCEPT !.Email = req.Email] ELSE user
userUpdate_Password(user, req) ==
    IF req.Password # ""
    THEN [user EXCEPT !.Password = GenerateFromPassword(req.Password)] ELSE user
\* faulty variant: an age of 0 in the request is written
userUpdate_Age_zeroWritten(user, req) ==
    IF req.Age >= 0 THEN [user EXCEPT !.Age = req.Age] ELSE user

userUpdate_Age(user, req) == IF req.Age > 0 THEN [user EXCEPT !.Age = req.Age] ELSE user

\* productService.Update, the fields taken from the request
productUpdate_Name(product, req) ==
    IF req.Name # "" THEN [product EXCEPT !.Name = req.Name] ELSE product
productUpdate_Description(product, req) ==
    IF req.Description # "" THEN [product EXCEPT !.Description = req.Description] ELSE product
productUpdate_Price(product, req) ==
    IF req.Price > 0 THEN [product EXCEPT !.Price = req.Price] ELSE product
productUpdate_Stock(product, req) ==
    IF req.Stock >= 0 THEN [product EXCEPT !.Stock = req.Stock] ELSE product

productUpdate_Fields(product, req) ==
    productUpdate_Stock(productUpdate_Price(productUpdate_Description(
        productUpdate_Name(product, req), req), req), req)

\* userService.Update: s.repo.GetByID(ctx, id), then the name; with an email in
\* the request the uniqueness lookup comes next, else the remaining fields
userService_Update_repoGetByID(w) ==
    /\ At(w, "upd_repoGetByID")
    /\ call[w].svc = "user"
    /\ \E ok \in Outcomes :
        LET row == repo_GetByID(users, call[w].id)
            req == call[w].req
        IN  /\ IF ~ok THEN Return(w, ErrDatabase, <<>>) /\ UNCHANGED local
               ELSE IF row = <<>> THEN Return(w, ErrRecordNotFound, <<>>) /\ UNCHANGED local
               ELSE IF req.Email # ""
               THEN /\ SetLocal(w, "ent", << userUpdate_Name(row[1], req) >>)
                    /\ Goto(w, "upd_GetByEmail")
               ELSE /\ SetLocal(w, "ent", << userUpdate_Age(userUpdate_Password(
                                               userUpdate_Name(row[1], req), req), req) >>)
                    /\ Goto(w, "upd_repoUpdate")
    /\ UNCHANGED <<users, products, nextID, redis>>
    /\ Bookkeeping

\* userService.Update: s.repo.GetByEmail(ctx, req.Email); a row of another id
\* stops the call, a failed lookup lets it go on
userService_Update_GetByEmail(w) ==
    /\ At(w, "upd_GetByEmail")
    /\ \E ok \in Outcomes :
        LET req == call[w].req
            existingUser == IF ok THEN repo_GetByEmail(users, req.Email) ELSE <<>>
        IN  /\ IF existingUser # <<>> /\ existingUser[1].ID # call[w].id
               THEN Return(w, ErrEmailExists, <<>>) /\ UNCHANGED local
               ELSE /\ local' = [local EXCEPT ![w] =
                                 [Noted(w, "GetByEmail", ok) EXCEPT !.ent =
                                    << userUpdate_Age(userUpdate_Password(
                                         userUpdate_Email(local[w].ent[1], req), req), req) >>]]
                    /\ Goto(w, "upd_repoUpdate")
    /\ UNCHANGED <<users, products, nextID, redis>>
    /\ Bookkeeping

\* productService.Update: s.repo.GetByID(ctx, id), then the fields
productService_Update_repoGetByID(w) ==
    /\ At(w, "upd_repoGetByID")
    /\ call[w].svc = "product"
    /\ \E ok \in Outcomes :
        LET row == repo_GetByID(products, call[w].id)
        IN  /\ IF ~ok THEN Return(w, ErrDatabase, <<>>) /\ UNCHANGED local
               ELSE IF row = <<>> THEN Return(w, ErrRecordNotFound, <<>>) /\ UNCHANGED local
               ELSE /\ SetLocal(w, "ent", << productUpdate_Fields(row[1], call[w].req) >>)
                    /\ Goto(w, "upd_repoUpdate")
    /\ UNCHANGED <<users, products, nextID, redis>>
    /\ Bookkeeping

\* faulty variant: the written row is also stored under its cache key
Update_repoUpdate_writeThrough(w) ==
    /\ At(w, "upd_repoUpdate")
    /\ \E ok \in Outcomes :
        LET svc == call[w].svc
            ent == local[w].ent[1]
        IN  /\ IF ~ok THEN Return(w, ErrDatabase, <<>>) /\ UNCHANGED <<users, products, redis>>
               ELSE IF ~UniqueEmailOK(svc, Table(svc), ent)
               THEN Return(w, ErrDuplicateEntry, <<>>) /\ UNCHANGED <<users, products, redis>>
               ELSE /\ SetTable(svc, Upsert(Table(svc), ent))
                    /\ redis' = redis_Set(redis, cacheKey(svc, ent.ID), Marshal(svc, ent), CacheTTL)
                    /\ Goto(w, "inv_DelKey")
    /\ UNCHANGED <<nextID, local>>
    /\ Bookkeeping

\* Update: s.repo.Update(ctx, row), the write to the database
Update_repoUpdate(w) ==
    /\ At(w, "upd_repoUpdate")
    /\ \E ok \in Outcomes :
        LET svc == call[w].svc
            ent == local[w].ent[1]
        IN  /\ IF ~ok THEN Return(w, ErrDatabase, <<>>) /\ UNCHANGED <<users, products>>
               ELSE IF ~UniqueEmailOK(svc, Table(svc), ent)
               THEN Return(w, ErrDuplicateEntry, <<>>) /\ UNCHANGED <<users, products>>
               ELSE SetTable(svc, Upsert(Table(svc), ent)) /\ Goto(w, "inv_DelKey")
    /\ UNCHANGED <<nextID, redis, local>>
    /\ Bookkeeping

\* Delete, entry
userService_Delete(w) ==
    \E id \in IDs :
        Start(w, id, "user", "Delete", NoRequest,
              "del_repoGetByID")

productService_Delete(w) ==
    \E id \in IDs :
        Start(w, id, "product", "Delete", NoRequest,
              "del_repoGetByID")

\* Delete: s.repo.GetByID(ctx, id), the existence check
Delete_repoGetByID(w) ==
    /\ At(w, "del_repoGetByID")
    /\ \E ok \in Outcomes :
        LET row == repo_GetByID(Table(call[w].svc), call[w].id)
        IN  /\ IF ~ok THEN Return(w, ErrDatabase, <<>>)
               ELSE IF row = <<>> THEN Return(w, ErrRecordNotFound, <<>>)
               ELSE Goto(w, "del_repoDelete")
    /\ UNCHANGED <<users, products, nextID, redis, local>>
    /\ Bookkeeping

\* faulty variant: the entity key is deleted before the store delete is known
\* to have worked
Delete_repoDelete_keyFirst(w) ==
    /\ At(w, "del_repoDelete")
    /\ \E ok \in Outcomes :
        LET svc == call[w].svc
        IN  /\ redis' = redis_Del(redis, {cacheKey(svc, call[w].id)})
            /\ IF ~ok THEN Return(w, ErrDatabase, <<>>) /\ UNCHANGED <<users, products>>
               ELSE SetTable(svc, repo_Delete(Table(svc), call[w].id)) /\ Goto(w, "inv_DelKey")
    /\ UNCHANGED <<nextID, local>>
    /\ Bookkeeping

\* Delete: s.repo.Delete(ctx, id)
Delete_repoDelete(w) ==
    /\ At(w, "del_repoDelete")
    /\ \E ok \in Outcomes :
        LET svc == call[w].svc
        IN  /\ IF ~ok THEN Return(w, ErrDatabase, <<>>) /\ UNCHANGED <<users, products>>
               ELSE SetTable(svc, repo_Delete(Table(svc), call[w].id)) /\ Goto(w, "inv_DelKey")
    /\ UNCHANGED <<nextID, redis, local>>
    /\ Bookkeeping

\* faulty variant: the Del of the entity key is left out
Invalidate_DelKey_skipped(w) ==
    /\ At(w, "inv_DelKey")
    /\ Goto(w, "inv_list")
    /\ UNCHANGED <<users, products, nextID, redis, local>>
    /\ Bookkeeping

\* Update and Delete: s.redis.Del(ctx, cacheKey); the result is not looked at
Invalidate_DelKey(w) ==
    /\ At(w, "inv_DelKey")
    /\ \E ok \in Outcomes :
        /\ redis' = IF ok THEN redis_Del(redis, {cacheKey(call[w].svc, call[w].id)}) ELSE redis
        /\ local' = [local EXCEPT ![w] = Noted(w, "DelKey", ok)]
    /\ Goto(w, "inv_list")
    /\ UNCHANGED <<users, products, nextID>>
    /\ Bookkeeping

\* userService Create, Update and Delete: s.redis.Del(ctx, "users:list:*"),
\* then the method returns
userService_DelList(w) ==
    /\ At(w, "inv_list")
    /\ call[w].svc = "user"
    /\ \E ok \in Outcomes :
        /\ redis' = IF ok THEN redis_Del(redis, {ListPattern("user")}) ELSE redis
        /\ local' = [local EXCEPT ![w] = Noted(w, "DelList", ok)]
    /\ Return(w, "", local[w].ent)
    /\ UNCHANGED <<users, products, nextID>>
    /\ Bookkeeping

\* productService Create, Update and Delete:
\* keys, _ := s.redis.Keys(ctx, "products:list:*").Result(); with no key the
\* method returns
productService_Keys(w) ==
    /\ At(w, "inv_list")
    /\ call[w].svc = "product"
    /\ \E ok \in Outcomes :
        LET keys == IF ok THEN redis_Keys(redis, ListPattern("product")) ELSE {}
        IN  /\ IF keys # {} THEN Goto(w, "inv_Del") ELSE Return(w, "", local[w].ent)
            /\ local' = [local EXCEPT ![w] = [Noted(w, "Keys", ok) EXCEPT !.keys = keys]]
    /\ UNCHANGED <<users, products, nextID, redis>>
    /\ Bookkeeping

\* productService Create, Update and Delete: s.redis.Del(ctx, keys...), then
\* the method returns
productService_Del(w) ==
    /\ At(w, "inv_Del")
    /\ \E ok \in Outcomes :
        /\ redis' = IF ok THEN redis_Del(redis, local[w].keys) ELSE redis
        /\ local' = [local EXCEPT ![w] = Noted(w, "DelList", ok)]
    /\ Return(w, "", local[w].ent)
    /\ UNCHANGED <<users, products, nextID>>
    /\ Bookkeeping

\* --------------------------------------------------------- pkg/errors
\* AppError{Type, Message, Err}; Err is <<>> (nil) or << the cause >>
AppError(type, message, err) == [Type |-> type, Message |-> message, Err |-> err]

NewValidationError(message) == AppError("ValidationErrorType", message, <<>>)
NewNotFoundError(message) == AppError("NotFoundErrorType", message, <<>>)
NewUnauthorizedError(message) == AppError("UnauthorizedErrorType", message, <<>>)

\* the ErrorType constants, and a value of the type that is none of them
ErrorTypes ==
    {"ValidationErrorType", "NotFoundErrorType", "UnauthorizedErrorType",
     "ForbiddenErrorType", "ConflictErrorType", "InternalErrorType"}
UnknownErrorType == "ErrorType(6)"

\* errors.New(text), and fmt.Errorf(text + ": %w", err), which wraps err
errors_New(text) == [Error |-> text, Err |-> <<>>]
fmt_Errorf(text, err) == [Error |-> text, Err |-> << err >>]

\* errors.As(err, &appErr): the first *AppError on the Unwrap chain of err
RECURSIVE errors_As(_)
errors_As(err) ==
    IF "Type" \in DOMAIN err THEN << err >>
    ELSE IF "Err" \in DOMAIN err /\ err.Err # <<>> THEN errors_As(err.Err[1])
    ELSE <<>>

\* faulty variant: Conflict is missing from the switch
HTTPStatusCode_noConflict(e) ==
    CASE e.Type = "ValidationErrorType" -> 400
      [] e.Type = "NotFoundErrorType" -> 404
      [] e.Type = "UnauthorizedErrorType" -> 401
      [] e.Type = "ForbiddenErrorType" -> 403
      [] e.Type = "InternalErrorType" -> 500
      [] OTHER -> 500

\* (*AppError).HTTPStatusCode
HTTPStatusCode(e) ==
    CASE e.Type = "ValidationErrorType" -> 400
      [] e.Type = "NotFoundErrorType" -> 404
      [] e.Type = "UnauthorizedErrorType" -> 401
      [] e.Type = "ForbiddenErrorType" -> 403
      [] e.Type = "ConflictErrorType" -> 409
      [] e.Type = "InternalErrorType" -> 500
      [] OTHER -> 500

\* GetHTTPStatusCode, GetErrorMessage: an error that is no AppError is a 500
\* with a fixed message
GetHTTPStatusCode(err) ==
    LET appErr == errors_As(err)
    IN  IF appErr # <<>> THEN HTTPStatusCode(appErr[1]) ELSE 500

\* faulty variant: the message is (*AppError).Error(), the cause behind it
GetErrorMessage_withCause(err) ==
    LET appErr == errors_As(err)
    IN  IF appErr = <<>> THEN "internal server error"
        ELSE IF appErr[1].Err # <<>> THEN appErr[1].Message \o ": cause"
        ELSE appErr[1].Message

GetErrorMessage(err) ==
    LET appErr == errors_As(err)
    IN  IF appErr # <<>> THEN appErr[1].Message ELSE "internal server error"

\* ------------------------------------------------------- pkg/response
\* what goes out to the client: the HTTP status and the JSON body
ErrorFromAppError(err) ==
    [status |-> GetHTTPStatusCode(err),
     body |-> [code |-> GetHTTPStatusCode(err), message |-> GetErrorMessage(err)]]

Success(data) ==
    [status |-> 200, body |-> [code |-> 0, message |-> "success", data |-> data]]

\* SuccessWithMessage, NotFound, InternalServerError
SuccessWithMessage(message, data) ==
    [status |-> 200, body |-> [code |-> 0, message |-> message, data |-> data]]
NotFound(message) == [status |-> 404, body |-> [code |-> 404, message |-> message]]
InternalServerError(message) ==
    [status |-> 500, body |-> [code |-> 500, message |-> message]]

\* ------------------------------- internal/handler (users and products)
\* an error of the repository or of fmt.Errorf, as a Go error: no AppError
GoError(text) == errors_New(text)

\* user.Password = "" before the user goes into the response
WithoutPassword(user) == [user EXCEPT !.Password = ""]

\* the handlers, from the return of the service call on: r is what the
\* service returned, [err, val]
UserHandler_CreateUser(r) ==
    IF r.err # "" THEN InternalServerError(r.err) ELSE Success(WithoutPassword(r.val[1]))

UserHandler_GetUser(r) ==
    IF r.err # "" THEN NotFound("user not found") ELSE Success(WithoutPassword(r.val[1]))

UserHandler_UpdateUser(r) ==
    IF r.err # "" THEN InternalServerError(r.err) ELSE Success(WithoutPassword(r.val[1]))

UserHandler_DeleteUser(r) ==
    IF r.err # "" THEN InternalServerError(r.err)
    ELSE SuccessWithMessage("user deleted successfully", <<>>)

ProductHandler_CreateProduct(r) ==
    IF r.err # "" THEN ErrorFromAppError(GoError(r.err)) ELSE Success(r.val[1])

ProductHandler_GetProduct(r) ==
    IF r.err # "" THEN ErrorFromAppError(GoError(r.err)) ELSE Success(r.val[1])

ProductHandler_UpdateProduct(r) ==
    IF r.err # "" THEN ErrorFromAppError(GoError(r.err)) ELSE Success(r.val[1])

ProductHandler_DeleteProduct(r) ==
    IF r.err # "" THEN ErrorFromAppError(GoError(r.err))
    ELSE SuccessWithMessage("product deleted successfully", <<>>)

\* the response to the request worker w serves, written when its service call
\* has returned
Outward(w) ==
    LET r == ret[w]
    IN  IF call[w].svc = "user"
        THEN CASE call[w].op = "Create" -> UserHandler_CreateUser(r)
               [] call[w].op = "GetByID" -> UserHandler_GetUser(r)
               [] call[w].op = "Update" -> UserHandler_UpdateUser(r)
               [] call[w].op = "Delete" -> UserHandler_DeleteUser(r)
        ELSE CASE call[w].op = "Create" -> ProductHandler_CreateProduct(r)
               [] call[w].op = "GetByID" -> ProductHandler_GetProduct(r)
               [] call[w].op = "Update" -> ProductHandler_UpdateProduct(r)
               [] call[w].op = "Delete" -> ProductHandler_DeleteProduct(r)

\* ------------------------------------------------------- golang-jwt/jwt
\* time.Hour, in seconds
Hour == 3600

\* the signing methods jwt registers, and those of type *SigningMethodHMAC
SigningMethods == {"HS256", "HS384", "HS512", "RS256", "none"}
SigningMethodHMAC == {"HS256", "HS384", "HS512"}

\* a MAC: equal exactly for the same method, key and signed content
HMAC(alg, key, claims) == [alg |-> alg, key |-> key, claims |-> claims]

\* token.SignedString(key): header, claims and signature segments
SignedString(alg, claims, key) ==
    [jwt |-> [alg |-> alg, claims |-> claims, sig |-> HMAC(alg, key, claims)]]

\* faulty variant: the signature is not compared
Verify_unchecked(alg, key, claims, sig) == alg \in SigningMethodHMAC

\* Method.Verify with a []byte key: only an HMAC method takes such a key, and
\* the signature must be the MAC of the signed content
Verify(alg, key, claims, sig) ==
    alg \in SigningMethodHMAC /\ sig = HMAC(alg, key, claims)

\* faulty variant: a token is still good at the second of its exp
ValidateClaims_inclusive(claims, now) ==
    IF now > claims.exp THEN "token is expired"
    ELSE IF now < claims.nbf THEN "token is not valid yet"
    ELSE ""

\* faulty variant: the subject must still be a row of the users table
ValidateClaims_subject(claims, now) ==
    IF claims.user_id \notin DOMAIN users THEN "subject is gone"
    ELSE IF ~(now < claims.exp) THEN "token is expired"
    ELSE IF now < claims.nbf THEN "token is not valid yet"
    ELSE ""

\* the claims validator: exp and nbf against the clock (iat is not checked)
ValidateClaims(claims, now) ==
    IF ~(now < claims.exp) THEN "token is expired"
    ELSE IF now < claims.nbf THEN "token is not valid yet"
    ELSE ""

\* the key function JWTAuth gives to the parser
Keyfunc(c, alg) == IF alg \in SigningMethodHMAC THEN << c.Secret >> ELSE <<>>

\* jwt.ParseWithClaims(tokenString, claims, keyfunc): the segments are decoded,
\* the method looked up, the key asked for, the signature verified and the
\* claims validated; token.Valid is set when nothing failed
ParseWithClaims(c, tokenString, now) ==
    LET bad(e) == [err |-> e, Valid |-> FALSE, claims |-> <<>>]
    IN  IF Len(tokenString) # 1 \/ "jwt" \notin DOMAIN tokenString[1]
        THEN bad("token is malformed")
        ELSE LET t == tokenString[1].jwt
                 key == Keyfunc(c, t.alg)
             IN  IF t.alg \notin SigningMethods THEN bad("signing method is unavailable")
                 ELSE IF key = <<>> THEN bad("invalid signing method")
                 ELSE IF ~Verify(t.alg, key[1], t.claims, t.sig) THEN bad("signature is invalid")
                 ELSE IF ValidateClaims(t.claims, now) # ""
                 THEN bad(ValidateClaims(t.claims, now))
                 ELSE [err |-> "", Valid |-> TRUE, claims |-> << t.claims >>]

\* ------------------------------------------------- internal/middleware
\* a header value is its words, which single spaces separate; a word is text
\* or an encoded token
Text(s) == [text |-> s]

\* strings.SplitN(authHeader, " ", 2): the first word and the rest
SplitN2(header) ==
    IF Len(header) <= 1 THEN << header >> ELSE << << header[1] >>, Tail(header) >>

ToLower(s) == IF s \in {"Bearer", "bearer", "BEARER"} THEN "bearer" ELSE s

\* strings.EqualFold(parts[0], "Bearer")
EqualFold(word, s) == "text" \in DOMAIN word /\ ToLower(word.text) = ToLower(s)

\* the keys JWTAuth sets in the gin context
CtxKeys == {"user_id", "email", "claims"}
EmptyCtx == [k \in CtxKeys |-> <<>>]

\* faulty variant: signed with the issuer name in place of the secret
GenerateToken_issuerKey(c, userID, email, now) ==
    SignedString("HS256",
                 [user_id |-> userID, email |-> email, exp |-> now + Hour, iat |-> now,
                  nbf |-> now, iss |-> c.Issuer],
                 c.Issuer)

\* faulty variant: the configured hours are used as they are, 0 included
GenerateToken_noDefault(c, userID, email, now) ==
    SignedString("HS256",
                 [user_id |-> userID, email |-> email,
                  exp |-> now + c.ExpirationHours * Hour, iat |-> now, nbf |-> now,
                  iss |-> c.Issuer],
                 c.Secret)

\* GenerateToken(cfg, userID, email) at time now
DefaultExpirationHours == 24
GenerateToken(c, userID, email, now) ==
    LET expirationHours == IF c.ExpirationHours <= 0 THEN DefaultExpirationHours
                           ELSE c.ExpirationHours
        claims == [user_id |-> userID, email |-> email,
                   exp |-> now + expirationHours * Hour, iat |-> now, nbf |-> now,
                   iss |-> c.Issuer]
    IN  SignedString("HS256", claims, c.Secret)

\* JWTAuth(cfg): the response it writes when it aborts, and the context it
\* leaves for the handlers when it calls c.Next()
JWTAuth(c, authHeader, now) ==
    LET abort(message) == [aborted |-> TRUE, ctx |-> EmptyCtx,
                           out |-> << ErrorFromAppError(NewUnauthorizedError(message)) >>]
        parts == SplitN2(authHeader)
    IN  IF authHeader = <<>> THEN abort("authorization header is required")
        ELSE IF Len(parts) # 2 \/ ~EqualFold(parts[1][1], "Bearer")
        THEN abort("invalid authorization header format")
        ELSE LET token == ParseWithClaims(c, parts[2], now)
             IN  IF token.err # "" THEN abort("invalid or expired token")
                 ELSE IF ~token.Valid THEN abort("invalid token")
                 ELSE [aborted |-> FALSE,
                       ctx |-> [k \in CtxKeys |->
                                  IF k = "user_id" THEN << token.claims[1].user_id >>
                                  ELSE IF k = "email" THEN << token.claims[1].email >>
                                  ELSE token.claims],
                       out |-> <<>>]

\* GetUserIDFromContext, GetEmailFromContext: the value and whether it is set
GetUserIDFromContext(ctx) == ctx["user_id"]
GetEmailFromContext(ctx) == ctx["email"]

\* ------------------------------------------------------- authService
\* bcrypt.CompareHashAndPassword
CompareHashAndPassword(hash, password) == hash = GenerateFromPassword(password)

\* authService.Authenticate: any error of the lookup is a wrong password
authService_Authenticate(tbl, email, password, ok) ==
    LET user == IF ok THEN repo_GetByEmail(tbl, email) ELSE <<>>
        denied == [err |-> << NewUnauthorizedError("invalid email or password") >>,
                   user |-> <<>>]
    IN  IF user = <<>> THEN denied
        ELSE IF ~CompareHashAndPassword(user[1].Password, password) THEN denied
        ELSE [err |-> <<>>, user |-> user]

\* authService.GetUserByID: any error of the lookup is a not-found
authService_GetUserByID(tbl, id, ok) ==
    LET user == IF ok THEN repo_GetByID(tbl, id) ELSE <<>>
    IN  IF user = <<>> THEN [err |-> << NewNotFoundError("user not found") >>, user |-> <<>>]
        ELSE [err |-> <<>>, user |-> user]

\* ---------------------------------------------------- internal/handler
\* LoginRequest bodies the clients send
LoginRequests ==
    { [Email |-> e, Password |-> pw] :
        e \in {"alice@x.com", "bob@x.com"}, pw \in {"alicesecret", "newsecret"} }
    \cup { [Email |-> "alice", Password |-> "alicesecret"] }

\* c.ShouldBindJSON(&req): binding:"required,email" and binding:"required"
ShouldBindJSON(req) ==
    req.Email \in {"alice@x.com", "bob@x.com"} /\ req.Password # ""

\* what a handler does: the response it writes, the token in it, and the
\* repository calls it made
Handled(out, token, reads) == [out |-> out, token |-> token, reads |-> reads]

\* AuthHandler.Login
Login(c, tbl, req, now, ok) ==
    IF ~ShouldBindJSON(req)
    THEN Handled(ErrorFromAppError(NewValidationError("invalid request body")), <<>>, {})
    ELSE LET auth == authService_Authenticate(tbl, req.Email, req.Password, ok)
             user == auth.user[1]
             token == GenerateToken(c, user.ID, user.Email, now)
         IN  IF auth.err # <<>> THEN Handled(ErrorFromAppError(auth.err[1]), <<>>, {"GetByEmail"})
             ELSE Handled(Success([token |-> token,
                                   user |-> [id |-> user.ID, name |-> user.Name,
                                             email |-> user.Email]]),
                          << token >>, {"GetByEmail"})

\* faulty variant: the new token keeps the exp of the one presented
RefreshToken_sameExpiry(c, ctx, now) ==
    LET token == SignedString("HS256", [ctx["claims"][1] EXCEPT !.iat = now, !.nbf = now],
                              c.Secret)
    IN  Handled(Success([token |-> token]), << token >>, {})

\* AuthHandler.RefreshToken
RefreshToken(c, ctx, now) ==
    LET userID == GetUserIDFromContext(ctx)
        email == GetEmailFromContext(ctx)
        token == GenerateToken(c, userID[1], email[1], now)
    IN  IF userID = <<>> \/ email = <<>>
        THEN Handled(ErrorFromAppError(NewUnauthorizedError("user not authenticated")), <<>>, {})
        ELSE Handled(Success([token |-> token]), << token >>, {})

\* AuthHandler.GetCurrentUser
GetCurrentUser(tbl, ctx, ok) ==
    LET userID == GetUserIDFromContext(ctx)
        got == authService_GetUserByID(tbl, userID[1], ok)
        user == got.user[1]
    IN  IF userID = <<>>
        THEN Handled(ErrorFromAppError(NewUnauthorizedError("user not authenticated")), <<>>, {})
        ELSE IF got.err # <<>> THEN Handled(ErrorFromAppError(got.err[1]), <<>>, {"GetByID"})
        ELSE Handled(Success([id |-> user.ID, name |-> user.Name, email |-> user.Email,
                              age |-> user.Age]), <<>>, {"GetByID"})

\* ------------------------------------------------------ the HTTP clients
\* "Bearer <token>"
Bearer(tok) == << Text("Bearer"), tok >>

\* the tokens a client can make from one it holds: the same claims under
\* another method or key, changed claims under the old signature, and the token
\* a replica whose clock is a second ahead would have signed
Forged(tok) ==
    LET t == tok.jwt
    IN  { SignedString(alg, t.claims, cfg.Secret) : alg \in {"HS384", "HS512"} }
        \cup { SignedString(alg, t.claims, "rsa-key") : alg \in {"RS256", "none", "XS256"} }
        \cup { SignedString("HS256", t.claims, "guess"),
               [jwt |-> [t EXCEPT !.claims.user_id = @ + 1]],
               SignedString("HS256", [t.claims EXCEPT !.nbf = @ + 1], cfg.Secret) }

Held == { e.tok : e \in issued }
Presentable == Held \cup UNION { Forged(tok) : tok \in Held }

\* the Authorization headers the clients send; <<>> is no header
Headers ==
    { <<>>, << Text("Bearer") >>, << Text("Bearer"), Text("garbage") >> }
    \cup { Bearer(tok) : tok \in Presentable }
    \cup UNION { { << tok >>, << Text("Basic"), tok >>, << Text("bearer"), tok >>,
                   << Text("Bearer"), tok, Text("x") >> } : tok \in Held }

\* no request is being served
Quiet == resp = NoResp /\ \A w \in Workers : pc[w] = "idle"

\* the clients keep the token of a response while they have room for it
Keep(token, userID, email) ==
    IF token # <<>> /\ Cardinality(issued) < MaxTokens
    THEN issued \cup { [tok |-> token[1], at |-> clock, userID |-> userID, email |-> email,
                         hours |-> cfg.ExpirationHours] }
    ELSE issued

\* the exchange: the request, what the middleware did and what went out
Exchange(route, req, header, mw, h) ==
    [route |-> route, req |-> req, header |-> header, at |-> clock,
     aborted |-> mw.aborted, ctx |-> mw.ctx,
     out |-> IF mw.aborted THEN mw.out[1] ELSE h.out,
     token |-> IF mw.aborted THEN <<>> ELSE h.token,
     reads |-> IF mw.aborted THEN {} ELSE h.reads]

NoMiddleware == [aborted |-> FALSE, ctx |-> EmptyCtx, out |-> <<>>]

\* POST /api/v1/auth/login
AuthHandler_Login ==
    /\ Quiet
    /\ \E req \in LoginRequests, ok \in Outcomes :
        LET h == Login(cfg, users, req, clock, ok)
        IN  /\ resp' = Exchange("login", req, <<>>, NoMiddleware, h)
            /\ issued' = IF h.token = <<>> THEN issued
                         ELSE Keep(h.token, h.token[1].jwt.claims.user_id,
                                   h.token[1].jwt.claims.email)
    /\ UNCHANGED <<clock, ticks, cfg>>
    /\ UNCHANGED svcVars

\* POST /api/v1/auth/refresh, behind JWTAuth
AuthHandler_RefreshToken ==
    /\ Quiet
    /\ \E header \in Headers :
        LET mw == JWTAuth(cfg, header, clock)
            h == RefreshToken(cfg, mw.ctx, clock)
        IN  /\ resp' = Exchange("refresh", NoRequest, header, mw, h)
            /\ issued' = IF mw.aborted \/ h.token = <<>> THEN issued
                         ELSE Keep(h.token, mw.ctx["user_id"][1], mw.ctx["email"][1])
    /\ UNCHANGED <<clock, ticks, cfg>>
    /\ UNCHANGED svcVars

\* GET /api/v1/auth/me, behind JWTAuth
AuthHandler_GetCurrentUser ==
    /\ Quiet
    /\ \E header \in Headers, ok \in Outcomes :
        LET mw == JWTAuth(cfg, header, clock)
            h == GetCurrentUser(users, mw.ctx, ok)
        IN  resp' = Exchange("me", NoRequest, header, mw, h)
    /\ UNCHANGED <<clock, ticks, cfg, issued>>
    /\ UNCHANGED svcVars

\* the response has gone out
Respond ==
    /\ resp # NoResp
    /\ resp' = NoResp
    /\ UNCHANGED <<clock, ticks, cfg, issued>>
    /\ UNCHANGED svcVars

\* the lifetime GenerateToken gives under a configuration, in seconds
Lifetime(c) ==
    (IF c.ExpirationHours <= 0 THEN DefaultExpirationHours ELSE c.ExpirationHours) * Hour

\* time passes: a second, or a second less than a token's lifetime
TickSteps == {1, Lifetime(cfg) - 1}

Tick ==
    /\ Quiet
    /\ ticks < MaxTicks
    /\ \E d \in TickSteps : clock' = clock + d
    /\ ticks' = ticks + 1
    /\ UNCHANGED <<cfg, issued, resp>>
    /\ UNCHANGED svcVars

\* the service is started again with another config.yaml; the tokens it
\* handed out stay with the clients
Reconfigure ==
    /\ Quiet
    /\ \E i \in 1..Len(JWTConfigs) :
        /\ JWTConfigs[i] # cfg
        /\ cfg' = JWTConfigs[i]
    /\ UNCHANGED <<clock, ticks, issued, resp>>
    /\ UNCHANGED svcVars

\* the errors a caller of response.ErrorFromAppError may hold: plain errors,
\* AppErrors of every type with and without a cause, and both wrapped by
\* fmt.Errorf once and twice
PlainErrors == { errors_New(t) : t \in {"generic error", ErrRecordNotFound} }
BareAppErrors ==
    { AppError(ty, m, <<>>) :
        ty \in ErrorTypes \cup {UnknownErrorType}, m \in {"test", "custom message"} }
CausedAppErrors ==
    { AppError(ty, "invalid request body", << cause >>) :
        ty \in ErrorTypes \cup {UnknownErrorType},
        cause \in PlainErrors \cup { AppError(t, "test", <<>>) :
                                       t \in {"NotFoundErrorType", "ConflictErrorType"} } }
WrappedOnce ==
    { fmt_Errorf("failed", e) : e \in PlainErrors \cup BareAppErrors \cup CausedAppErrors }
WrappedTwice == { fmt_Errorf("request", e) : e \in WrappedOnce }
ErrorValues ==
    PlainErrors \cup BareAppErrors \cup CausedAppErrors \cup WrappedOnce \cup WrappedTwice

\* a handler answers with response.ErrorFromAppError(c, err)
Response_ErrorFromAppError ==
    /\ Quiet
    /\ \E err \in ErrorValues :
        resp' = [route |-> "error", err |-> err, out |-> ErrorFromAppError(err)]
    /\ UNCHANGED <<clock, ticks, cfg, issued>>
    /\ UNCHANGED svcVars

\* ------------------------------------------------- the redis server
\* redis drops an entry whose TTL has run out
Expire ==
    /\ ~Returning
    /\ \E key \in KeySpace :
        /\ redis[key] # <<>>
        /\ redis[key][1].ttl > 0
        /\ redis' = redis_Del(redis, {key})
    /\ conc' = [v \in Workers |-> IF InFlight(v) THEN conc[v] \cup {Expiry} ELSE conc[v]]
    /\ UNCHANGED <<users, products, nextID, pc, call, local, ret, ops, pre, preTable, inUse>>
    /\ UNCHANGED authVars

\* ------------------------------------------------------------- the system
\* what other clients of the same redis left in it before the first request:
\* nothing, or every page of the list family and, under the key of row 1,
\* bytes that are not JSON
InitialCaches(svc) ==
    { EmptyCache,
      [k \in KeySpace |->
         IF k \in ListKeys(svc) THEN << [val |-> ListBytes, ttl |-> 0] >>
         ELSE IF k = cacheKey(svc, 1) THEN << [val |-> CorruptBytes, ttl |-> 0] >>
         ELSE <<>>] }

\* the rows the tables hold when the service starts
InitialUsers ==
    (1 :> NewUser(1, "Alice", "alice@x.com", GenerateFromPassword("alicesecret"), 30))
InitialProducts == (1 :> NewProduct(1, "Widget", "a widget", 10, 4))
InitialTable(svc) == IF svc = "user" THEN InitialUsers ELSE InitialProducts

InitService ==
    /\ users = InitialUsers
    /\ products = InitialProducts
    /\ nextID = [svc \in Services |-> 2]
    /\ inUse \in Services
    /\ redis \in InitialCaches(inUse)
    /\ pc = [w \in Workers |-> "idle"]
    /\ call = [w \in Workers |-> NoCall]
    /\ local = [w \in Workers |-> NoLocal]
    /\ ret = [w \in Workers |-> NoRet]
    /\ ops = 0
    /\ conc = [w \in Workers |-> {}]
    /\ pre = [w \in Workers |-> EmptyCache]
    /\ preTable = [w \in Workers |-> <<>>]
    /\ clock = 0
    /\ ticks = 0
    /\ cfg = JWTConfigs[1]
    /\ issued = {}
    /\ resp = NoResp

NextService ==
    \/ \E w \in Workers : userService_Create(w)
    \/ \E w \in Workers : userService_Create_GetByEmail(w)
    \/ \E w \in Workers : productService_Create(w)
    \/ \E w \in Workers : Create_repoCreate(w)
    \/ \E w \in Workers : userService_GetByID(w)
    \/ \E w \in Workers : productService_GetByID(w)
    \/ \E w \in Workers : GetByID_redisGet(w)
    \/ \E w \in Workers : GetByID_repoGetByID(w)
    \/ \E w \in Workers : GetByID_redisSet(w)
    \/ \E w \in Workers : userService_Update(w)
    \/ \E w \in Workers : userService_Update_repoGetByID(w)
    \/ \E w \in Workers : userService_Update_GetByEmail(w)
    \/ \E w \in Workers : productService_Update(w)
    \/ \E w \in Workers : productService_Update_repoGetByID(w)
    \/ \E w \in Workers : Update_repoUpdate(w)
    \/ \E w \in Workers : userService_Delete(w)
    \/ \E w \in Workers : productService_Delete(w)
    \/ \E w \in Workers : Delete_repoGetByID(w)
    \/ \E w \in Workers : Delete_repoDelete(w)
    \/ \E w \in Workers : Invalidate_DelKey(w)
    \/ \E w \in Workers : userService_DelList(w)
    \/ \E w \in Workers : productService_Keys(w)
    \/ \E w \in Workers : productService_Del(w)
    \/ \E w \in Workers : Finish(w)
    \/ Expire

SpecService == InitService /\ [][NextService]_vars

\* the auth endpoints, with the user service changing the store under them; a
\* request to them is served in one step between the calls of the service,
\* which read and write the store once each
InitAuth ==
    /\ users = InitialUsers
    /\ products = InitialProducts
    /\ nextID = [svc \in Services |-> 2]
    /\ inUse = "user"
    /\ redis = EmptyCache
    /\ pc = [w \in Workers |-> "idle"]
    /\ call = [w \in Workers |-> NoCall]
    /\ local = [w \in Workers |-> NoLocal]
    /\ ret = [w \in Workers |-> NoRet]
    /\ ops = MaxOps - 1
    /\ conc = [w \in Workers |-> {}]
    /\ pre = [w \in Workers |-> EmptyCache]
    /\ preTable = [w \in Workers |-> <<>>]
    /\ clock = 0
    /\ ticks = 0
    /\ cfg \in { JWTConfigs[i] : i \in 1..Len(JWTConfigs) }
    /\ issued = {}
    /\ resp = NoResp

NextAuth ==
    \/ AuthHandler_Login
    \/ AuthHandler_RefreshToken
    \/ AuthHandler_GetCurrentUser
    \/ Respond
    \/ Tick
    \/ \E w \in Workers : userService_Update(w)
    \/ \E w \in Workers : userService_Update_repoGetByID(w)
    \/ \E w \in Workers : userService_Update_GetByEmail(w)
    \/ \E w \in Workers : Update_repoUpdate(w)
    \/ \E w \in Workers : userService_Delete(w)
    \/ \E w \in Workers : Delete_repoGetByID(w)
    \/ \E w \in Workers : Delete_repoDelete(w)
    \/ \E w \in Workers : Invalidate_DelKey(w)
    \/ \E w \in Workers : userService_DelList(w)
    \/ \E w \in Workers : Finish(w)

SpecAuth == InitAuth /\ [][NextAuth]_vars

\* the auth endpoints of a service that is restarted with other configurations
NextConfig ==
    \/ AuthHandler_Login
    \/ AuthHandler_RefreshToken
    \/ AuthHandler_GetCurrentUser
    \/ Respond
    \/ Tick
    \/ Reconfigure

SpecConfig == InitAuth /\ [][NextConfig]_vars

\* the service once its mutations have stopped: Update and Delete calls and
\* reads up to the bound on calls, one of them counted as made before, then
\* GetByID calls without end, of which no record of overlaps is kept
GetByID_afterMutations(w) ==
    \E id \in IDs :
        LET c == [id |-> id, svc |-> inUse, op |-> "GetByID", req |-> NoRequest] IN
        /\ ~Returning
        /\ resp = NoResp
        /\ pc[w] = "idle"
        /\ \A i \in 1..Len(WorkerOrder) :
             WorkerOrder[i] = w => \A j \in 1..(i - 1) : pc[WorkerOrder[j]] # "idle"
        /\ ops = MaxOps
        /\ pc' = [pc EXCEPT ![w] = "get_redisGet"]
        /\ call' = [call EXCEPT ![w] = c]
        /\ local' = [local EXCEPT ![w] = NoLocal]
        /\ ret' = [ret EXCEPT ![w] = NoRet]
        /\ UNCHANGED <<users, products, nextID, redis, inUse, ops, conc, pre, preTable>>
        /\ UNCHANGED authVars

InitStaleness ==
    /\ users = InitialUsers
    /\ products = InitialProducts
    /\ nextID = [svc \in Services |-> 2]
    /\ inUse \in Services
    /\ redis = EmptyCache
    /\ pc = [w \in Workers |-> "idle"]
    /\ call = [w \in Workers |-> NoCall]
    /\ local = [w \in Workers |-> NoLocal]
    /\ ret = [w \in Workers |-> NoRet]
    /\ ops = 1
    /\ conc = [w \in Workers |-> {}]
    /\ pre = [w \in Workers |-> EmptyCache]
    /\ preTable = [w \in Workers |-> <<>>]
    /\ clock = 0
    /\ ticks = 0
    /\ cfg = JWTConfigs[1]
    /\ issued = {}
    /\ resp = NoResp

NextStaleness ==
    \/ \E w \in Workers : userService_GetByID(w)
    \/ \E w \in Workers : productService_GetByID(w)
    \/ \E w \in Workers : GetByID_afterMutations(w)
    \/ \E w \in Workers : GetByID_redisGet(w)
    \/ \E w \in Workers : GetByID_repoGetByID(w)
    \/ \E w \in Workers : GetByID_redisSet(w)
    \/ \E w \in Workers : userService_Update(w)
    \/ \E w \in Workers : userService_Update_repoGetByID(w)
    \/ \E w \in Workers : userService_Update_GetByEmail(w)
    \/ \E w \in Workers : productService_Update(w)
    \/ \E w \in Workers : productService_Update_repoGetByID(w)
    \/ \E w \in Workers : Update_repoUpdate(w)
    \/ \E w \in Workers : userService_Delete(w)
    \/ \E w \in Workers : productService_Delete(w)
    \/ \E w \in Workers : Delete_repoGetByID(w)
    \/ \E w \in Workers : Delete_repoDelete(w)
    \/ \E w \in Workers : Invalidate_DelKey(w)
    \/ \E w \in Workers : userService_DelList(w)
    \/ \E w \in Workers : productService_Keys(w)
    \/ \E w \in Workers : Finish(w)
    \/ Expire

\* a step of the call worker w is in, or the hand-over of its result
Proceed(w) ==
    \/ GetByID_redisGet(w) \/ GetByID_repoGetByID(w) \/ GetByID_redisSet(w)
    \/ userService_Update_repoGetByID(w) \/ userService_Update_GetByEmail(w)
    \/ productService_Update_repoGetByID(w) \/ Update_repoUpdate(w)
    \/ Delete_repoGetByID(w) \/ Delete_repoDelete(w)
    \/ Invalidate_DelKey(w) \/ userService_DelList(w) \/ productService_Keys(w)
    \/ Finish(w)

\* the TTL of the entry under the key runs out
ExpireKey(key) == Expire /\ redis[key] # <<>> /\ redis'[key] = <<>>

\* every call in progress goes on to its return, and every entry with a TTL
\* runs out unless it is deleted or replaced first
SpecStaleness ==
    /\ InitStaleness
    /\ [][NextStaleness]_vars
    /\ \A w \in Workers : SF_vars(Proceed(w))
    /\ \A key \in EntityKeys : SF_vars(ExpireKey(key))

\* response.ErrorFromAppError over the errors it can be handed
InitErrors ==
    /\ users = InitialUsers
    /\ products = InitialProducts
    /\ nextID = [svc \in Services |-> 2]
    /\ inUse = "user"
    /\ redis = EmptyCache
    /\ pc = [w \in Workers |-> "idle"]
    /\ call = [w \in Workers |-> NoCall]
    /\ local = [w \in Workers |-> NoLocal]
    /\ ret = [w \in Workers |-> NoRet]
    /\ ops = 0
    /\ conc = [w \in Workers |-> {}]
    /\ pre = [w \in Workers |-> EmptyCache]
    /\ preTable = [w \in Workers |-> <<>>]
    /\ clock = 0
    /\ ticks = 0
    /\ cfg = JWTConfigs[1]
    /\ issued = {}
    /\ resp = NoResp

NextErrors ==
    \/ Response_ErrorFromAppError
    \/ Respond

SpecErrors == InitErrors /\ [][NextErrors]_vars

\* ------------------------------------------------------------ properties
\* the call of worker w has just returned
Returned(w, op) == pc[w] = "done" /\ call[w].op = op
Succeeded(w) == ret[w].err = ""
KeyOf(w) == cacheKey(call[w].svc, call[w].id)

\* a GetByID of the same row ran at some moment of w's call
OverlapGetByID(w) ==
    \E c \in conc[w] : c.op = "GetByID" /\ c.svc = call[w].svc /\ c.id = call[w].id

\* no other call ran at any moment of w's call
Alone(w) == conc[w] \subseteq {Expiry}

C2_ReadThrough ==
    \A w \in Workers :
        (Returned(w, "GetByID") /\ Alone(w)
            /\ pre[w][KeyOf(w)] = <<>>
            /\ call[w].id \in DOMAIN Table(call[w].svc)
            /\ ret[w].err # ErrDatabase)
            => /\ Succeeded(w)
               /\ ret[w].val = << Table(call[w].svc)[call[w].id] >>
               /\ ("redisSet" \notin local[w].failed /\ Expiry \notin conc[w])
                    => /\ redis[KeyOf(w)] # <<>>
                       /\ Unmarshal(call[w].svc, redis[KeyOf(w)][1].val)
                            = << Table(call[w].svc)[call[w].id] >>

\* a GetByID that missed the cache, read the row and cached it with the TTL
C2_Witness ==
    \E w \in Workers :
        /\ Returned(w, "GetByID") /\ Alone(w) /\ Succeeded(w)
        /\ pre[w][KeyOf(w)] = <<>>
        /\ local[w].failed = {}
        /\ redis[KeyOf(w)] # <<>>
        /\ redis[KeyOf(w)][1].ttl = CacheTTL
        /\ ret[w].val = << Table(call[w].svc)[call[w].id] >>

\* C3 as stated: after a successful Create, Update or Delete that no other call
\* overlapped (and none of whose redis calls failed), every key of the list
\* family that was cached before the call is absent.
C3_ListFamilyInvalidated ==
    \A w \in Workers :
        (pc[w] = "done" /\ call[w].op \in {"Create", "Update", "Delete"}
            /\ Succeeded(w) /\ Alone(w) /\ local[w].failed = {})
            => \A k \in ListKeys(call[w].svc) :
                  (GlobMatch(ListPattern(call[w].svc), k) /\ pre[w][k] # <<>>)
                      => redis[k] = <<>>

\* ------------------------------------------------- properties of the auth
\* the routes behind JWTAuth
Protected == {"refresh", "me"}

\* a request to a route behind JWTAuth is being answered
Answering == resp # NoResp /\ resp.route \in Protected

\* the header is "<scheme> <one word>" with the scheme Bearer in any case
BearerForm(header) ==
    /\ Len(header) = 2
    /\ "text" \in DOMAIN header[1]
    /\ header[1].text \in {"Bearer", "bearer", "BEARER"}

\* the word is an encoded token whose signature is the MAC of its claims under
\* the configured secret
SignedUnderSecret(word) ==
    /\ "jwt" \in DOMAIN word
    /\ word.jwt.sig = HMAC(word.jwt.alg, cfg.Secret, word.jwt.claims)

\* JWTAuth lets a request with this token through at time now
Accepts(tok, now) == ~JWTAuth(cfg, Bearer(tok), now).aborted

InWindow(tok, now) == tok.jwt.claims.nbf <= now /\ now < tok.jwt.claims.exp

\* a token as GenerateToken signs it
Genuine(tok) == tok.jwt.alg = "HS256" /\ SignedUnderSecret(tok)

\* the instants a token is looked at: now, the next steps of the clock, and
\* both ends of its window
Instants(tok) ==
    {clock} \cup { clock + d : d \in TickSteps }
    \cup { tok.jwt.claims.nbf - 1, tok.jwt.claims.nbf,
           tok.jwt.claims.exp - 1, tok.jwt.claims.exp, tok.jwt.claims.exp + 1 }

\* C4: a request to a protected route whose Authorization header is missing,
\* is not "Bearer <token>", or carries a token that does not parse or is not
\* signed under the configured secret gets status 401, is aborted before the
\* handler (which reads nothing and issues nothing), and leaves none of
\* user_id, email, claims in the context.
C4_FailsClosed ==
    (Answering /\ (~BearerForm(resp.header) \/ ~SignedUnderSecret(resp.header[2])))
        => /\ resp.out.status = 401
           /\ resp.aborted
           /\ resp.reads = {} /\ resp.token = <<>>
           /\ \A k \in CtxKeys : resp.ctx[k] = <<>>

\* a token re-signed under a guessed key was turned away on /me
C4_Witness ==
    /\ Answering /\ resp.route = "me"
    /\ BearerForm(resp.header) /\ "jwt" \in DOMAIN resp.header[2]
    /\ resp.header[2].jwt.alg = "HS256"
    /\ ~SignedUnderSecret(resp.header[2])
    /\ InWindow(resp.header[2], resp.at)
    /\ resp.aborted /\ resp.out.status = 401

\* C5: a token issued at t0 has nbf = t0 and exp = t0 + lifetime; a correctly
\* signed HS256 token is let through at an instant exactly when
\* nbf <= instant < exp; and once an instant is at or past exp, the token is
\* turned away at every later instant.
C5_TokenLifecycle ==
    /\ \A e \in issued :
        /\ e.tok.jwt.claims.nbf = e.at
        /\ e.tok.jwt.claims.exp = e.at + Lifetime(cfg)
    /\ \A tok \in { t \in Presentable : Genuine(t) } :
        /\ \A now \in Instants(tok) : Accepts(tok, now) <=> InWindow(tok, now)
        /\ \A now \in Instants(tok), later \in Instants(tok) :
             (now >= tok.jwt.claims.exp /\ later >= now) => ~Accepts(tok, later)
        /\ (Answering /\ resp.header = Bearer(tok))
             => (~resp.aborted <=> InWindow(tok, resp.at))

\* an issued token presented at the very second it expires was turned away
C5_Witness ==
    \E e \in issued :
        /\ Answering /\ resp.header = Bearer(e.tok)
        /\ resp.at = e.tok.jwt.claims.exp
        /\ resp.aborted
        /\ resp.out.body.message = "invalid or expired token"

\* C6 as stated: every token whose header names a method other than HS256 is
\* answered with 401.
C6_OnlyHS256Accepted ==
    (Answering /\ BearerForm(resp.header) /\ "jwt" \in DOMAIN resp.header[2]
        /\ resp.header[2].jwt.alg # "HS256")
        => resp.aborted /\ resp.out.status = 401

\* C7 as stated: whatever makes JWTAuth turn a request away, the response
\* (status, body code and body message) is the one of every other request it
\* turns away.
C7_RejectionsIndistinguishable ==
    (Answering /\ resp.aborted)
        => \A header \in Headers :
              JWTAuth(cfg, header, clock).aborted
                  => JWTAuth(cfg, header, clock).out = << resp.out >>

\* C8: a token GenerateToken made for (id, email), sent as "Bearer <token>"
\* before its exp, passes JWTAuth, and the handler finds user_id = id and
\* email = email in the context.
C8_RoundTrip ==
    \A e \in issued :
        /\ clock < e.tok.jwt.claims.exp
            => LET mw == JWTAuth(cfg, Bearer(e.tok), clock)
               IN  /\ ~mw.aborted
                   /\ GetUserIDFromContext(mw.ctx) = << e.userID >>
                   /\ GetEmailFromContext(mw.ctx) = << e.email >>
        /\ (Answering /\ resp.header = Bearer(e.tok) /\ resp.at < e.tok.jwt.claims.exp)
            => /\ ~resp.aborted
               /\ resp.ctx["user_id"] = << e.userID >>
               /\ resp.ctx["email"] = << e.email >>
               /\ resp.ctx["claims"] = << e.tok.jwt.claims >>

\* a token of a login was sent to /me later on and the handler answered with
\* the row of its user_id
C8_Witness ==
    \E e \in issued :
        /\ Answering /\ resp.route = "me" /\ resp.header = Bearer(e.tok)
        /\ resp.at > e.at
        /\ ~resp.aborted
        /\ resp.ctx["user_id"] = << e.userID >> /\ resp.ctx["email"] = << e.email >>
        /\ resp.out.status = 200 /\ resp.out.body.data.id = e.userID

\* the user row a token was issued for is gone or no longer has its email
SubjectChanged(e) ==
    e.userID \notin DOMAIN users \/ users[e.userID].Email # e.email

\* C9: a token keeps passing JWTAuth at every time before its exp, whatever
\* Update and Delete have done to the user it was issued for: also when the
\* row is gone from the users table or no longer has the token's email.
C9_NoRevocation ==
    \A e \in issued :
        /\ (SubjectChanged(e) /\ clock < e.tok.jwt.claims.exp) => Accepts(e.tok, clock)
        /\ (Answering /\ resp.header = Bearer(e.tok) /\ resp.at < e.tok.jwt.claims.exp)
            => ~resp.aborted

\* the token of a deleted user still passed JWTAuth and got a fresh token
C9_Witness ==
    \E e \in issued :
        /\ e.userID \notin DOMAIN users
        /\ Answering /\ resp.route = "refresh" /\ resp.header = Bearer(e.tok)
        /\ ~resp.aborted /\ resp.out.status = 200

\* C10: a refresh that passes JWTAuth with a token for (id, email) answers 200
\* with a token carrying the same id and email, iat = nbf = now and
\* exp = now + lifetime; it makes no repository call; and the token presented
\* and the new one are each let through exactly inside their own window.
C10_Refresh ==
    (resp # NoResp /\ resp.route = "refresh" /\ ~resp.aborted)
        => LET old == resp.header[2]
               new == resp.token[1]
           IN  /\ resp.out.status = 200
               /\ resp.token # <<>>
               /\ resp.out.body.data.token = new
               /\ new.jwt.claims.user_id = old.jwt.claims.user_id
               /\ new.jwt.claims.email = old.jwt.claims.email
               /\ new.jwt.claims.iat = resp.at /\ new.jwt.claims.nbf = resp.at
               /\ new.jwt.claims.exp = resp.at + Lifetime(cfg)
               /\ resp.reads = {}
               /\ \A tok \in {old, new} :
                    \A now \in Instants(tok) : Accepts(tok, now) <=> InWindow(tok, now)

\* a refresh a second or more after the login: two different tokens, both good
C10_Witness ==
    \E e \in issued :
        /\ resp # NoResp /\ resp.route = "refresh" /\ ~resp.aborted
        /\ resp.header = Bearer(e.tok)
        /\ resp.at > e.at
        /\ resp.token # <<>> /\ resp.token[1] # e.tok
        /\ Accepts(e.tok, clock) /\ Accepts(resp.token[1], clock)

\* ------------------------------------------- properties of partial update
\* the zero-value convention: a field of the patch that is zero is not provided
Patched(old, new, zero) == IF new = zero THEN old ELSE new

\* C11: a userService.Update that succeeds with no other call in flight
\* leaves each of name, email, password and age as it was stored when the
\* patch field is "" or 0 and replaces it otherwise (the password by a hash
\* of the new one), in the returned user and in the users table.
C11_UserPartialUpdate ==
    \A w \in Workers :
        (Returned(w, "Update") /\ call[w].svc = "user" /\ Succeeded(w) /\ Alone(w))
            => LET old == preTable[w][call[w].id]
                   req == call[w].req
                   got == ret[w].val[1]
               IN  /\ got.ID = call[w].id
                   /\ got.Name = Patched(old.Name, req.Name, "")
                   /\ got.Email = Patched(old.Email, req.Email, "")
                   /\ IF req.Password = "" THEN got.Password = old.Password
                      ELSE CompareHashAndPassword(got.Password, req.Password)
                   /\ got.Age = Patched(old.Age, req.Age, 0)
                   /\ call[w].id \in DOMAIN users
                   /\ users[call[w].id] = got

\* the patch {name: "", age: 5} on the user named "Alice": still "Alice", age 5
C11_Witness ==
    \E w \in Workers :
        /\ Returned(w, "Update") /\ call[w].svc = "user" /\ Succeeded(w) /\ Alone(w)
        /\ call[w].req.Name = "" /\ call[w].req.Age = 5
        /\ preTable[w][call[w].id].Name = "Alice" /\ preTable[w][call[w].id].Age # 5
        /\ ret[w].val[1].Name = "Alice" /\ ret[w].val[1].Age = 5
        /\ users[call[w].id].Name = "Alice" /\ users[call[w].id].Age = 5

\* C12 as stated: a productService.Update that succeeds with no other call in
\* flight leaves each of name, description, price and stock as it was stored
\* when the patch field is "" or 0, in the returned product and in the table.
C12_ProductPartialUpdate ==
    \A w \in Workers :
        (Returned(w, "Update") /\ call[w].svc = "product" /\ Succeeded(w) /\ Alone(w))
            => LET old == preTable[w][call[w].id]
                   req == call[w].req
                   got == ret[w].val[1]
               IN  /\ (req.Name = "" => got.Name = old.Name)
                   /\ (req.Description = "" => got.Description = old.Description)
                   /\ (req.Price = 0 => got.Price = old.Price)
                   /\ (req.Stock = 0 => got.Stock = old.Stock)
                   /\ products[call[w].id] = got

\* --------------------------------------- properties of the cache fallbacks
\* the key of w's call held, when the call began, bytes that are not JSON
CorruptAtStart(w) == pre[w][KeyOf(w)] # <<>> /\ ~pre[w][KeyOf(w)][1].val.wf

\* the key of w's call holds bytes that decode to the row now in the table
HoldsRow(w) ==
    /\ redis[KeyOf(w)] # <<>>
    /\ redis[KeyOf(w)][1].val.wf
    /\ Unmarshal(call[w].svc, redis[KeyOf(w)][1].val) = << Table(call[w].svc)[call[w].id] >>

\* C13 as stated: a GetByID(id) that finds bytes that do not deserialize under
\* the key, with id in the store (no other call in flight, the database read
\* not failing), returns the store's row without error and leaves the key
\* holding a valid serialization of it.
C13_CorruptionOverwritten ==
    \A w \in Workers :
        (Returned(w, "GetByID") /\ Alone(w) /\ Expiry \notin conc[w] /\ CorruptAtStart(w)
            /\ call[w].id \in DOMAIN Table(call[w].svc)
            /\ ret[w].err # ErrDatabase)
            => /\ Succeeded(w)
               /\ ret[w].val = << Table(call[w].svc)[call[w].id] >>
               /\ HoldsRow(w)

\* C13, amended: such a GetByID returns the store's row without error, and
\* when its redis Set did not fail the key holds a valid serialization of the
\* row; when the Set failed the key holds what it held before.
C13_CorruptionFallback ==
    \A w \in Workers :
        (Returned(w, "GetByID") /\ Alone(w) /\ Expiry \notin conc[w] /\ CorruptAtStart(w)
            /\ call[w].id \in DOMAIN Table(call[w].svc)
            /\ ret[w].err # ErrDatabase)
            => /\ Succeeded(w)
               /\ ret[w].val = << Table(call[w].svc)[call[w].id] >>
               /\ IF "redisSet" \in local[w].failed
                  THEN redis[KeyOf(w)] = pre[w][KeyOf(w)]
                  ELSE HoldsRow(w)

\* a GetByID found garbage under the key (the redis Get itself succeeded),
\* returned the row and replaced the garbage
C13_Witness ==
    \E w \in Workers :
        /\ Returned(w, "GetByID") /\ Alone(w) /\ CorruptAtStart(w)
        /\ local[w].failed = {}
        /\ Succeeded(w)
        /\ ret[w].val = << Table(call[w].svc)[call[w].id] >>
        /\ HoldsRow(w)
        /\ redis[KeyOf(w)][1].ttl = CacheTTL

\* C14: a GetByID(id) for an id in neither the cache nor the store (no other
\* call in flight, the database read not failing) returns the store's
\* not-found error and no value and leaves the cache as it found it; no key of
\* a row that does not exist yet is ever in the cache, nor does the Create of
\* the row put it there; so a GetByID(id) that comes after the row was created
\* and finds the key absent returns the row.
C14_NoNegativeCaching ==
    /\ \A w \in Workers :
        (Returned(w, "GetByID") /\ Alone(w)
            /\ pre[w][KeyOf(w)] = <<>>
            /\ call[w].id \notin DOMAIN preTable[w]
            /\ ret[w].err # ErrDatabase)
            => /\ ret[w].err = ErrRecordNotFound
               /\ ret[w].val = <<>>
               /\ redis[KeyOf(w)] = <<>>
               /\ Expiry \notin conc[w] => redis = pre[w]
    /\ \A svc \in Services, id \in IDs :
        id >= nextID[svc] => redis[cacheKey(svc, id)] = <<>>
    /\ \A w \in Workers :
        (Returned(w, "Create") /\ Succeeded(w) /\ ret[w].val[1].ID \in IDs
            /\ \A c \in conc[w] : ~(c.op = "GetByID" /\ c.id = ret[w].val[1].ID))
            => redis[cacheKey(call[w].svc, ret[w].val[1].ID)] = <<>>
    /\ \A w \in Workers :
        (Returned(w, "GetByID") /\ Alone(w)
            /\ pre[w][KeyOf(w)] = <<>>
            /\ call[w].id \in DOMAIN preTable[w]
            /\ call[w].id \notin DOMAIN InitialTable(call[w].svc)
            /\ ret[w].err # ErrDatabase)
            => /\ Succeeded(w)
               /\ ret[w].val = << preTable[w][call[w].id] >>

\* a GetByID of a row that does not exist came back with the not-found error
\* and the cache is as it was
C14_Witness ==
    \E w \in Workers :
        /\ Returned(w, "GetByID") /\ Alone(w)
        /\ pre[w][KeyOf(w)] = <<>>
        /\ call[w].id \notin DOMAIN preTable[w]
        /\ ret[w].err = ErrRecordNotFound
        /\ local[w].failed = {}
        /\ redis = pre[w]

\* ------------------------------------------- properties of cache failures
\* the redis calls of the services, by the names their failures are noted under
CacheCalls == {"redisGet", "redisSet", "DelKey", "DelList", "Keys"}

\* the row Update writes for a stored row and a request
UpdatedRow(svc, old, req) ==
    IF svc = "user"
    THEN userUpdate_Age(userUpdate_Password(userUpdate_Email(userUpdate_Name(old, req),
                                                             req), req), req)
    ELSE productUpdate_Fields(old, req)

\* what the call of w gives when every redis call is left out of the method:
\* the result, and the table afterwards
StoreOnly(w) ==
    LET c == call[w]
        tbl == preTable[w]
        created == NewEntity(c.svc, c.req, nextID[c.svc] - 1)
        updated == UpdatedRow(c.svc, tbl[c.id], c.req)
    IN  CASE c.op = "GetByID" ->
               IF c.id \in DOMAIN tbl
               THEN [err |-> "", val |-> << tbl[c.id] >>, tbl |-> tbl]
               ELSE [err |-> ErrRecordNotFound, val |-> <<>>, tbl |-> tbl]
          [] c.op = "Create" ->
               [err |-> "", val |-> << created >>, tbl |-> Upsert(tbl, created)]
          [] c.op = "Update" ->
               [err |-> "", val |-> << updated >>, tbl |-> Upsert(tbl, updated)]
          [] c.op = "Delete" ->
               [err |-> "", val |-> <<>>, tbl |-> repo_Delete(tbl, c.id)]

\* C15: whichever redis calls failed inside a GetByID, Create, Update or
\* Delete (no other call in flight, no database call failing), the call
\* returns the value or error the database calls alone give, and the table
\* is the one the database calls alone leave: the write of Create, Update and
\* Delete is applied.
C15_CacheFailuresAbsorbed ==
    \A w \in Workers :
        (pc[w] = "done" /\ Alone(w)
            /\ local[w].failed \cap CacheCalls # {}
            /\ ret[w].err # ErrDatabase)
            => /\ ret[w].err = StoreOnly(w).err
               /\ ret[w].val = StoreOnly(w).val
               /\ Table(call[w].svc) = StoreOnly(w).tbl

\* an Update whose two cache deletes both failed returned the new row, and the
\* table holds it
C15_Witness ==
    \E w \in Workers :
        /\ Returned(w, "Update") /\ Alone(w)
        /\ {"DelKey", "DelList"} \subseteq local[w].failed
        /\ Succeeded(w)
        /\ ret[w].val # << preTable[w][call[w].id] >>
        /\ Table(call[w].svc)[call[w].id] = ret[w].val[1]

\* ---------------------------------------- properties of concurrent reads
\* no Create, Update or Delete has changed the table, is running, or ran
\* during a call still in flight
OnlyReaders ==
    /\ Table(inUse) = InitialTable(inUse)
    /\ \A v \in Workers :
        /\ call[v].op \in {"", "GetByID"}
        /\ \A c \in conc[v] : c.op \in {"GetByID", "expire"}

\* the call of w is a GetByID of a stored row that began with its key absent
ColdRead(w) ==
    /\ InFlight(w) /\ call[w].op = "GetByID"
    /\ pre[w][KeyOf(w)] = <<>>
    /\ call[w].id \in DOMAIN Table(call[w].svc)

\* C16: while only GetByID calls run, in every state of every interleaving of
\* their redis Get, database read and redis Set steps, the key of a GetByID
\* that began with the key absent is absent or holds bytes that decode to the
\* stored row, and each such call whose database read did not fail returns
\* that row without error.
C16_ConcurrentColdReads ==
    \A w \in Workers :
        (OnlyReaders /\ ColdRead(w))
            => /\ redis[KeyOf(w)] = <<>> \/ HoldsRow(w)
               /\ (pc[w] = "done" /\ ret[w].err # ErrDatabase)
                    => /\ Succeeded(w)
                       /\ ret[w].val = << Table(call[w].svc)[call[w].id] >>

\* two GetByID of the same row both missed and both read the database; one
\* has returned the row and the key holds it, the other is about to Set
C16_Witness ==
    \E w \in Workers, v \in Workers :
        /\ w # v /\ OnlyReaders /\ ColdRead(w) /\ ColdRead(v)
        /\ call[w].id = call[v].id
        /\ pc[w] = "done" /\ Succeeded(w)
        /\ "redisSet" \notin local[w].failed
        /\ pc[v] = "get_redisSet"
        /\ HoldsRow(w)
        /\ ret[w].val = << Table(call[w].svc)[call[w].id] >>

\* ------------------------------------------ properties of token lifetimes
\* the hours a token gets under a configured ExpirationHours
HoursFor(configured) == IF configured > 0 THEN configured ELSE DefaultExpirationHours

\* C17: every token has iat = nbf = the time it was issued and
\* exp = that time + H hours, H the ExpirationHours configured when it was
\* issued if > 0 and 24 otherwise; a token in a response is made with the
\* configuration of that moment; and after the configuration has changed, a
\* token issued before is still let through exactly until its own exp.
C17_LifetimeSetAtIssuance ==
    /\ \A e \in issued :
        /\ e.tok.jwt.claims.iat = e.at
        /\ e.tok.jwt.claims.nbf = e.at
        /\ e.tok.jwt.claims.exp = e.at + HoursFor(e.hours) * Hour
        /\ e.hours <= 0 => e.tok.jwt.claims.exp = e.at + 24 * Hour
        /\ \A now \in Instants(e.tok) : Accepts(e.tok, now) <=> InWindow(e.tok, now)
    /\ (resp # NoResp /\ resp.token # <<>>)
        => resp.token[1].jwt.claims.exp = resp.at + HoursFor(cfg.ExpirationHours) * Hour

\* a token issued when no lifetime was configured is presented, an hour and
\* more later, to a service now configured with one hour, and is let through:
\* its exp is still 24 hours after it was issued
C17_Witness ==
    \E e \in issued :
        /\ e.hours = 0 /\ cfg.ExpirationHours = 1
        /\ e.tok.jwt.claims.exp = e.at + 24 * Hour
        /\ clock >= e.at + Lifetime(cfg)
        /\ Answering /\ resp.header = Bearer(e.tok)
        /\ ~resp.aborted

\* ------------------------------------------ properties of the HTTP boundary
\* the request of w names an id that the table did not hold (no other call in
\* flight, the database read not failing)
NamesAbsentID(w) ==
    /\ call[w].op \in {"GetByID", "Update", "Delete"}
    /\ Alone(w)
    /\ call[w].id \notin DOMAIN preTable[w]
    /\ ret[w].err # ErrDatabase

\* C18 as stated: on every user and product endpoint a get, update or delete
\* of an id absent from the store is answered with 404, and a request whose
\* database call failed is answered with 500.
C18_StatusByCondition ==
    \A w \in Workers :
        pc[w] = "done"
            => /\ NamesAbsentID(w) => Outward(w).status = 404
               /\ ret[w].err = ErrDatabase => Outward(w).status = 500

\* the request of w creates a user with, or moves a user to, an email that a
\* different stored user holds (no other call in flight, no database call
\* failing but for the uniqueness itself)
EmailTaken(w) ==
    /\ call[w].svc = "user" /\ call[w].op \in {"Create", "Update"}
    /\ Alone(w)
    /\ call[w].op = "Update" => call[w].id \in DOMAIN preTable[w]
    /\ \E i \in DOMAIN preTable[w] :
        i # call[w].id /\ preTable[w][i].Email = call[w].req.Email
    /\ ret[w].err # ErrDatabase

\* C19 as stated: such a request is answered with 409, and the users table is
\* as it was before the call.
C19_DuplicateEmailConflict ==
    \A w \in Workers :
        (pc[w] = "done" /\ EmailTaken(w))
            => /\ Outward(w).status = 409
               /\ users = preTable[w]

\* the texts of the errors of the database driver and of gorm
StoreErrorTexts == {ErrRecordNotFound, ErrDatabase, ErrDuplicateEntry}

\* C20 as stated: the message of the response to a failing request on a user,
\* product or auth endpoint is never the text of a store error.
C20_NoInternalTextOutward ==
    /\ \A w \in Workers :
        (pc[w] = "done" /\ ret[w].err # "")
            => Outward(w).body.message \notin StoreErrorTexts
    /\ (resp # NoResp /\ resp.out.status >= 400)
        => resp.out.body.message \notin StoreErrorTexts

\* ------------------------------------------- properties of the error mapping
\* the Unwrap chain of an error, the error itself first
RECURSIVE Chain(_)
Chain(err) == IF err.Err = <<>> THEN << err >> ELSE << err >> \o Chain(err.Err[1])

IsAppError(err) == "Type" \in DOMAIN err

\* the AppErrors on the chain, outermost first
AppErrorsOf(err) == SelectSeq(Chain(err), IsAppError)

\* the mapping from type to status
StatusOfType(type) ==
    CASE type = "ValidationErrorType" -> 400
      [] type = "NotFoundErrorType" -> 404
      [] type = "UnauthorizedErrorType" -> 401
      [] type = "ForbiddenErrorType" -> 403
      [] type = "ConflictErrorType" -> 409
      [] OTHER -> 500

\* a response written by ErrorFromAppError for an error is going out
AnsweringError == resp # NoResp /\ resp.route = "error"

\* C21: for every error the status (and the code in the body) is: for an
\* AppError, 400/404/401/403/409/500 by its type and 500 for a type value that
\* is none of the six; 500 for an error that neither is nor wraps an AppError;
\* and for an error that is no AppError but wraps one, the status of the
\* AppError it wraps.
C21_StatusMapping ==
    AnsweringError
        => LET apps == AppErrorsOf(resp.err)
           IN  /\ resp.out.status \in {400, 401, 403, 404, 409, 500}
               /\ resp.out.body.code = resp.out.status
               /\ IsAppError(resp.err) => resp.out.status = StatusOfType(resp.err.Type)
               /\ apps = <<>> => resp.out.status = 500
               /\ apps # <<>> => resp.out.status = StatusOfType(apps[1].Type)

\* a Conflict AppError inside two fmt.Errorf wrappers is answered with 409
C21_Witness ==
    /\ AnsweringError
    /\ ~IsAppError(resp.err) /\ resp.err.Err # <<>>
    /\ ~IsAppError(resp.err.Err[1])
    /\ Len(AppErrorsOf(resp.err)) = 1
    /\ AppErrorsOf(resp.err)[1].Type = "ConflictErrorType"
    /\ resp.out.status = 409

\* C22 as stated: the message is the AppError's Message for every AppError,
\* with or without a cause, and "internal server error" for every error that
\* is not an AppError.
C22_MessageByKind ==
    AnsweringError
        => /\ IsAppError(resp.err) => resp.out.body.message = resp.err.Message
           /\ ~IsAppError(resp.err) => resp.out.body.message = "internal server error"

\* C22, amended: the message is the AppError's Message for every AppError,
\* with or without a cause; the Message of the AppError it wraps for an error
\* that is no AppError but wraps one; and "internal server error" for every
\* error that neither is nor wraps an AppError.
C22_MessageOfAppError ==
    AnsweringError
        => LET apps == AppErrorsOf(resp.err)
           IN  /\ IsAppError(resp.err) => resp.out.body.message = resp.err.Message
               /\ apps # <<>> => resp.out.body.message = apps[1].Message
               /\ apps = <<>> => resp.out.body.message = "internal server error"

\* an AppError that carries a cause is answered with its Message alone
C22_Witness ==
    /\ AnsweringError
    /\ IsAppError(resp.err) /\ resp.err.Err # <<>>
    /\ resp.err.Err[1] \in PlainErrors
    /\ resp.out.body.message = resp.err.Message
    /\ resp.out.body.message # resp.err.Err[1].Error

\* ------------------------------ properties of mutations racing other calls
\* every other call has returned
OthersReturned(w) == \A v \in Workers \ {w} : ~InFlight(v)

\* every call that ran during w's call was a GetByID of the same row
OnlyReadsOfRow(w) ==
    \A c \in conc[w] \ {Expiry} :
        c.op = "GetByID" /\ c.svc = call[w].svc /\ c.id = call[w].id

\* the key of w's row holds the serialization of the row as it was when w's
\* call began
HoldsOldRow(w) ==
    /\ call[w].id \in DOMAIN preTable[w]
    /\ redis[KeyOf(w)] # <<>>
    /\ redis[KeyOf(w)][1].val = Marshal(call[w].svc, preTable[w][call[w].id])

\* C23: when an Update(id, patch) that changed the row returns success, none
\* of its redis calls having failed, and the only calls that ran during it
\* were GetByID(id) calls, all of which have returned, the key "<type>:<id>"
\* does not hold the pre-update value.
C23_NoStaleEntryAfterUpdate ==
    \A w \in Workers :
        (Returned(w, "Update") /\ Succeeded(w) /\ local[w].failed = {}
            /\ OnlyReadsOfRow(w) /\ OthersReturned(w)
            /\ ret[w].val # << preTable[w][call[w].id] >>)
            => ~HoldsOldRow(w)

\* C24: when a Delete(id) returns success, none of its redis calls having
\* failed, and the only calls that ran during it were GetByID(id) calls, all of
\* which have returned, the store has no row for id and the key "<type>:<id>"
\* does not hold the deleted entity, so that a later GetByID(id) reads the
\* store and returns not-found.
C24_DeletedNeverServed ==
    \A w \in Workers :
        (Returned(w, "Delete") /\ Succeeded(w) /\ local[w].failed = {}
            /\ OnlyReadsOfRow(w) /\ OthersReturned(w))
            => /\ repo_GetByID(Table(call[w].svc), call[w].id) = <<>>
               /\ ~HoldsOldRow(w)

\* the fields of the row a request of Update writes
PatchedFields(svc, req) ==
    IF svc = "user"
    THEN { f \in {"Name", "Email", "Password"} : req[f] # "" }
            \cup { f \in {"Age"} : req[f] > 0 }
    ELSE { f \in {"Name", "Description"} : req[f] # "" }
            \cup { f \in {"Price"} : req[f] > 0 }
            \cup { f \in {"Stock"} : req[f] >= 0 }

\* the row holds the value the request gave for every field it patches
Carries(row, svc, req) ==
    \A f \in PatchedFields(svc, req) :
        row[f] = IF f = "Password" THEN GenerateFromPassword(req[f]) ELSE req[f]

\* w's call has made its store write and has only cache deletes left, none of
\* which can fail the call
PastStoreWrite(w) == pc[w] \in {"inv_DelKey", "inv_list", "inv_Del"}

\* the calls of w and v ran during each other and during no other call
OnlyEachOther(w, v) ==
    /\ conc[w] \ {Expiry} = {Brief(call[v])}
    /\ conc[v] \ {Expiry} = {Brief(call[w])}

\* C25: when two Update calls on the same id that patch disjoint fields ran
\* during each other and during no other call, the one has returned success
\* and the other has made its store write (so that it returns success too),
\* the stored row carries the patched values of both.
C25_NoLostUpdate ==
    \A w \in Workers, v \in Workers :
        (/\ w # v
         /\ Returned(w, "Update") /\ Succeeded(w)
         /\ call[v].op = "Update" /\ PastStoreWrite(v)
         /\ call[v].svc = call[w].svc /\ call[v].id = call[w].id
         /\ OnlyEachOther(w, v)
         /\ PatchedFields(call[w].svc, call[w].req)
                \cap PatchedFields(call[v].svc, call[v].req) = {})
            => /\ call[w].id \in DOMAIN Table(call[w].svc)
               /\ Carries(Table(call[w].svc)[call[w].id], call[w].svc, call[w].req)
               /\ Carries(Table(call[w].svc)[call[w].id], call[v].svc, call[v].req)

\* every call that ran during w's call was an Update of the same row
OnlyUpdatesOfRow(w) ==
    \A c \in conc[w] \ {Expiry} :
        c.op = "Update" /\ c.svc = call[w].svc /\ c.id = call[w].id

\* C26: when a Delete(id) returns success and the only calls that ran during
\* it were Update(id) calls, all of which have returned, the store holds no
\* row for id: an Update that read the row before the delete has not created
\* it again with its write.
C26_DeleteIsFinal ==
    \A w \in Workers :
        (Returned(w, "Delete") /\ Succeeded(w)
            /\ OnlyUpdatesOfRow(w) /\ OthersReturned(w))
            => call[w].id \notin DOMAIN Table(call[w].svc)

\* ------------------------------------------ properties of email uniqueness
\* w's call is an Update of a stored user to the email the user already has
SameEmailUpdate(w) ==
    /\ call[w].op = "Update" /\ call[w].svc = "user"
    /\ call[w].req.Email # ""
    /\ call[w].id \in DOMAIN preTable[w]
    /\ preTable[w][call[w].id].Email = call[w].req.Email

\* C27: in every reachable state no two stored users have the same email,
\* whatever Create and Update calls have run or are running; and an Update
\* that sets a user's email to the value it already has, with no other call
\* running and no database call failing, succeeds and leaves the email.
C27_EmailUnique ==
    /\ \A i \in DOMAIN users, j \in DOMAIN users :
        i # j => users[i].Email # users[j].Email
    /\ \A w \in Workers :
        (pc[w] = "done" /\ SameEmailUpdate(w) /\ Alone(w) /\ ret[w].err # ErrDatabase)
            => /\ Succeeded(w)
               /\ ret[w].val[1].Email = call[w].req.Email
               /\ users[call[w].id] = ret[w].val[1]

\* a Create and an Update both passed the GetByEmail check for the same free
\* email; the index let the first write through and refused the second
C27_Witness ==
    \E w \in Workers, v \in Workers :
        /\ w # v
        /\ pc[w] = "done" /\ ret[w].err = ErrDuplicateEntry
        /\ call[w].svc = "user" /\ call[w].req.Email = "bob@x.com"
        /\ "GetByEmail" \notin local[w].failed
        /\ Brief(call[v]) \in conc[w]
        /\ call[v].op \in {"Create", "Update"} /\ call[v].op # call[w].op
        /\ call[v].req.Email = "bob@x.com"
        /\ \E i \in DOMAIN users : users[i].Email = "bob@x.com"
        /\ \A i \in DOMAIN users, j \in DOMAIN users :
            i # j => users[i].Email # users[j].Email

\* an Update of a user to the email it already has returns success
C27_WitnessSameEmail ==
    \E w \in Workers :
        /\ pc[w] = "done" /\ SameEmailUpdate(w) /\ Alone(w) /\ Succeeded(w)
        /\ users[call[w].id].Email = call[w].req.Email

\* --------------------------------------------- properties of cache writes
\* the step adds the key or changes what it holds
Written(key) == redis'[key] # <<>> /\ redis'[key] # redis[key]

\* the step is the redis Set of a GetByID of w, which comes only after its
\* redis Get gave no value that decodes, and stores the row w read from the
\* database under the key of its id with the fixed TTL
SetByGetByID(w, key) ==
    /\ call[w].op = "GetByID"
    /\ pc[w] = "get_redisSet" /\ pc'[w] = "done"
    /\ key = KeyOf(w)
    /\ redis'[key] = << [val |-> Marshal(call[w].svc, local[w].ent[1]), ttl |-> CacheTTL] >>
    /\ ret'[w].val = local[w].ent

\* C28: in every step, a cache key that is added or overwritten is the key
\* of a GetByID that is making its cache write after a miss or a failed
\* deserialization; no step of Create, Update or Delete sets any key.
C28_CacheWrittenOnlyByReads ==
    [][\A key \in KeySpace : Written(key) => \E w \in Workers : SetByGetByID(w, key)]_vars

\* a Create, Update or Delete has returned success with its redis calls
\* made, and every key the cache holds it held with the same value before
C28_Witness ==
    \E w \in Workers :
        /\ pc[w] = "done" /\ call[w].op \in {"Create", "Update", "Delete"}
        /\ Succeeded(w) /\ Alone(w) /\ local[w].failed = {}
        /\ \E key \in KeySpace : pre[w][key] # <<>> /\ redis[key] = <<>>
        /\ \A key \in KeySpace : redis[key] # <<>> => redis[key] = pre[w][key]

\* ------------------------------------------ properties of failed mutations
Mutations == {"Create", "Update", "Delete"}

\* w's call is a Create, Update or Delete that has returned an error
FailedMutation(w) == pc[w] = "done" /\ call[w].op \in Mutations /\ ~Succeeded(w)

\* the step in which a Create, Update or Delete of w returns an error
MutationFails(w) ==
    /\ call[w].op \in Mutations
    /\ pc[w] # "done" /\ pc'[w] = "done"
    /\ ret'[w].err # ""

\* C29: when Create, Update or Delete returns an error, the step that returns
\* it changes neither table nor any cache key, and with no other call running
\* and no entry expiring during it the tables and every cache key are as they
\* were when the call began.
C29_FailedMutationNoEffect ==
    /\ [](\A w \in Workers :
            (FailedMutation(w) /\ conc[w] = {})
                => /\ users = (IF call[w].svc = "user" THEN preTable[w] ELSE users)
                   /\ products = (IF call[w].svc = "product" THEN preTable[w] ELSE products)
                   /\ redis = pre[w])
    /\ [][\A w \in Workers :
            MutationFails(w) => users' = users /\ products' = products /\ redis' = redis]_vars

\* an Update to the email of another user has returned its error; the rows
\* and the cached list page are what they were
C29_Witness ==
    \E w \in Workers :
        /\ FailedMutation(w) /\ conc[w] = {}
        /\ call[w].op = "Update" /\ ret[w].err = ErrEmailExists
        /\ users = preTable[w] /\ redis = pre[w]
        /\ \E key \in KeySpace : redis[key] # <<>>

\* ------------------------------------------------- properties of staleness
\* what the store holds for the row of w's call, as GetByID returns it
StoreAnswer(w) ==
    LET row == repo_GetByID(Table(call[w].svc), call[w].id)
    IN  [err |-> IF row = <<>> THEN ErrRecordNotFound ELSE "", val |-> row]

\* every GetByID that returns anything but a database failure returns what the
\* store holds
ReadsCurrent ==
    \A w \in Workers :
        (Returned(w, "GetByID") /\ ret[w].err # ErrDatabase) => ret[w] = StoreAnswer(w)

\* C30: every entry in the cache carries the TTL of 5 minutes, a redis Get
\* step leaves the cache as it is, and, the Update and Delete calls being
\* finitely many, from some moment on every GetByID that returns without a
\* database failure returns the store's state for its id, the entity or
\* not-found.
C30_StalenessBounded ==
    /\ [](\A key \in KeySpace : redis[key] # <<>> => redis[key][1].ttl = CacheTTL)
    /\ [][\A w \in Workers : (pc[w] = "get_redisGet" /\ pc'[w] # pc[w]) => redis' = redis]_vars
    /\ <>[]ReadsCurrent

\* every call has returned and no mutation can follow, and a key holds, with
\* the TTL of 5 minutes, a row that is not what the store holds for its id
C30_Witness ==
    /\ ops = MaxOps
    /\ \A w \in Workers : pc[w] = "idle"
    /\ \E id \in IDs :
        LET key == cacheKey(inUse, id)
        IN  /\ redis[key] # <<>>
            /\ redis[key][1].ttl = CacheTTL
            /\ Unmarshal(inUse, redis[key][1].val) # <<>>
            /\ Unmarshal(inUse, redis[key][1].val) # repo_GetByID(Table(inUse), id)

====
